---- MODULE Spec2Model ----
(***************************************************************************)
(* Double-entry ledger of finance-manager.                                 *)
(*                                                                         *)
(* Two AccountingService implementations live in the repository:           *)
(*   - src/unnamed/part_007 : currency-aware validator, balances updated   *)
(*     with the store's atomic increment, signed by entry kind only;       *)
(*   - src/src/lib/accounting.ts : strict validator, balances updated by   *)
(*     a read followed by a write of the new value, signed by account type.*)
(* Spec runs the first service, SpecTA the second, over the same store.    *)
(*                                                                         *)
(* Money and rates are exact rationals <<numerator, denominator>>.         *)
(* prisma.$transaction is modelled as a write buffer per client that is    *)
(* applied to the store in one step on commit and dropped on any error.    *)
(***************************************************************************)
EXTENDS Integers, Sequences, FiniteSets, TLC

VARIABLES
  balance,             \* Account.balance, by account id
  transactions,        \* committed Transaction rows
  transactionEntries,  \* committed TransactionEntry rows
  exchangeRates,       \* ExchangeRate rows (the rate cache)
  calls,               \* number of service calls started so far
  pc,                  \* per client: where its current call stands
  call,                \* per client: the request being served (or last served)
  local,               \* per client: locals of the running call
  txn,                 \* per client: writes buffered in its open $transaction
  result,              \* per client: outcome of its last finished call
  tagBalances,         \* TagBalance rows, by (tag, account); the currency is the account's
  alloc,               \* per client: locals of its assignMoneyToTag / removeMoneyFromTag
  allocated,           \* history: by (tag, account), successful assigns minus removes
  report,              \* per client: what its validateTagBalanceConstraints returns
  tagIds,              \* ids of the Tag rows
  resolving,           \* per client: locals of its getExchangeRate / updateExchangeRates
  rateHistory,         \* history: rates returned and refreshed so far
  balanceTA            \* Account balances as the type-aware executor writes them

ledger == <<balance, transactions, transactionEntries>>
tagVars == <<tagBalances, alloc, allocated, report, tagIds>>
rateVars == <<resolving, rateHistory>>
vars == <<balance, transactions, transactionEntries, exchangeRates, calls,
          pc, call, local, txn, result, tagBalances, alloc, allocated,
          report, tagIds, resolving, rateHistory, balanceTA>>

\* Bound on the number of service calls in one behaviour.
MaxCalls == 2

Clients == {"c1", "c2"}

Null == "null"

-----------------------------------------------------------------------------
(* Exact rational arithmetic (JavaScript numbers / Decimal columns).       *)

RECURSIVE GCD(_, _)
GCD(a, b) == IF b = 0 THEN a ELSE GCD(b, a % b)

IAbs(n) == IF n < 0 THEN -n ELSE n

Rat(n, d) ==
  LET s == IF d < 0 THEN -1 ELSE 1
      g == GCD(IAbs(n), IAbs(d))
  IN  <<(s * n) \div g, (s * d) \div g>>

Zero == <<0, 1>>
One == <<1, 1>>

RAdd(x, y) == Rat(x[1] * y[2] + y[1] * x[2], x[2] * y[2])
RNeg(x) == <<-x[1], x[2]>>
RSub(x, y) == RAdd(x, RNeg(y))
RMul(x, y) == Rat(x[1] * y[1], x[2] * y[2])
RInv(x) == Rat(x[2], x[1])
RLess(x, y) == x[1] * y[2] < y[1] * x[2]
RAbs(x) == <<IAbs(x[1]), x[2]>>

\* An optional number that was not given (undefined).
Undefined == <<0, 0>>

\* JavaScript truthiness of an optional number: undefined and 0 are falsy.
Truthy(x) == x[1] # 0

-----------------------------------------------------------------------------
(* JavaScript numbers.  A number is an IEEE 754 double: a sign and a        *)
(* magnitude of at most Precision significant bits.  The magnitude is kept  *)
(* as a binary fixed-point numeral of four limbs, least significant first:  *)
(* three limbs of LimbBits bits behind the point and the integer part.      *)
(* The numeral holds every double from 2^-6 up to 2^13 exactly, which       *)
(* covers the amounts of the requests and their sums.                       *)

\* Significant bits of a double.
Precision == 53
\* Bits of a limb, and the limbs behind the point.
LimbBits == 20
Limb == 1048576

RECURSIVE bitLength(_)
bitLength(n) == IF n = 0 THEN 0 ELSE 1 + bitLength(n \div 2)

RECURSIVE pow2(_)
pow2(k) == IF k = 0 THEN 1 ELSE 2 * pow2(k - 1)

NoLimbs == <<0, 0, 0, 0>>

\* Position of the leading 1 of a magnitude, or 0 when there is none.
topBit(m) ==
  IF m[4] # 0 THEN 3 * LimbBits + bitLength(m[4])
  ELSE IF m[3] # 0 THEN 2 * LimbBits + bitLength(m[3])
  ELSE IF m[2] # 0 THEN LimbBits + bitLength(m[2])
  ELSE bitLength(m[1])

\* Carries of the lowest limbs brought forward.
carried(m) ==
  <<m[1] % Limb,
    (m[2] + (m[1] \div Limb)) % Limb,
    (m[3] + ((m[2] + (m[1] \div Limb)) \div Limb)) % Limb,
    m[4] + ((m[3] + ((m[2] + (m[1] \div Limb)) \div Limb)) \div Limb)>>

addLimbs(a, b) == carried(<<a[1] + b[1], a[2] + b[2], a[3] + b[3], a[4] + b[4]>>)

\* a - b for a >= b: each limb borrows a Limb from the next.
subLimbs(a, b) ==
  carried(<<Limb + a[1] - b[1], Limb - 1 + a[2] - b[2], Limb - 1 + a[3] - b[3],
            a[4] - b[4] - 1>>)

lessLimbs(a, b) ==
  \/ a[4] < b[4]
  \/ a[4] = b[4] /\ a[3] < b[3]
  \/ a[4] = b[4] /\ a[3] = b[3] /\ a[2] < b[2]
  \/ a[4] = b[4] /\ a[3] = b[3] /\ a[2] = b[2] /\ a[1] < b[1]

\* Round to nearest, ties to even, dropping the k <= LimbBits low bits;
\* inexact says that the value has more behind the numeral.
roundAt(m, inexact, k) ==
  IF k <= 0 THEN m
  ELSE IF /\ (m[1] \div pow2(k - 1)) % 2 = 1
          /\ \/ inexact
             \/ m[1] % pow2(k - 1) # 0
             \/ (IF k < LimbBits THEN m[1] \div pow2(k) ELSE m[2]) % 2 = 1
    THEN carried(<<m[1] - (m[1] % pow2(k)) + pow2(k), m[2], m[3], m[4]>>)
  ELSE <<m[1] - (m[1] % pow2(k)), m[2], m[3], m[4]>>

\* The double nearest to a magnitude.
roundToDouble(m, inexact) == roundAt(m, inexact, topBit(m) - Precision)

number(negative, m) == [negative |-> negative /\ m # NoLimbs, limbs |-> m]

\* The next limb of r/d behind the point, and what is left for the limbs
\* after it, for r < d.
limbOf(r, d) == (r * Limb) \div d
restOf(r, d) == (r * Limb) % d

\* n/d as a numeral, cut off behind the last limb.
numeral(n, d) ==
  <<limbOf(restOf(restOf(n % d, d), d), d),
    limbOf(restOf(n % d, d), d),
    limbOf(n % d, d),
    n \div d>>

\* Decimal.toNumber(): the double nearest to the decimal value.
toNumber(x) ==
  number(x[1] < 0,
         roundToDouble(numeral(IAbs(x[1]), x[2]),
                       restOf(restOf(restOf(IAbs(x[1]) % x[2], x[2]), x[2]), x[2]) # 0))

\* x + y on numbers: the exact sum, rounded once.
plus(x, y) ==
  IF x.negative = y.negative
    THEN number(x.negative, roundToDouble(addLimbs(x.limbs, y.limbs), FALSE))
  ELSE IF lessLimbs(x.limbs, y.limbs)
    THEN number(y.negative, roundToDouble(subLimbs(y.limbs, x.limbs), FALSE))
  ELSE number(x.negative, roundToDouble(subLimbs(x.limbs, y.limbs), FALSE))

\* x - y on numbers.
minus(x, y) == plus(x, number(~y.negative, y.limbs))

\* The rows in the order of their creation.
firstEntry(rows) ==
  CHOOSE e \in rows :
    \A f \in rows :
      \/ e.transactionId < f.transactionId
      \/ e.transactionId = f.transactionId /\ e.position <= f.position

\* entries.reduce((balance, entry) =>
\*   balance + (entry.debitAmount.toNumber() - entry.creditAmount.toNumber()), ...)
RECURSIVE reduceEntries(_, _)
reduceEntries(rows, acc) ==
  IF rows = {} THEN acc
  ELSE reduceEntries(rows \ {firstEntry(rows)},
                     plus(acc, minus(toNumber(firstEntry(rows).debitAmount),
                                     toNumber(firstEntry(rows).creditAmount))))

\* calculateAccountBalance: the entries of the account, summed from 0.
calculateAccountBalance(rows, accountId) ==
  reduceEntries({e \in rows : e.accountId = accountId}, toNumber(Zero))

-----------------------------------------------------------------------------
(* Accounts present in the store.  "Ghost" is an id with no Account row.   *)

Accounts == {"Checking", "Savings", "Dollar", "Salary", "Food", "Loan"}

AccountType ==
  [a \in Accounts |->
     CASE a \in {"Checking", "Savings", "Dollar"} -> "ASSET"
       [] a = "Salary" -> "INCOME"
       [] a = "Food" -> "EXPENSE"
       [] a = "Loan" -> "LIABILITY"]

AccountCurrency == [a \in Accounts |-> IF a = "Dollar" THEN "USD" ELSE "LKR"]

InitialBalance == [a \in Accounts |-> IF a \in {"Checking", "Dollar"} THEN <<10, 1>> ELSE Zero]

\* prisma.account.findUnique({ where: { id } })
findAccount(id) ==
  IF id \in Accounts
    THEN [found |-> TRUE, id |-> id, type |-> AccountType[id],
          currency |-> AccountCurrency[id]]
    ELSE [found |-> FALSE]

-----------------------------------------------------------------------------
(* Exchange Rate Resolver (src/src/lib/currency.ts).                       *)

Currencies == {"LKR", "USD"}
Today == "today"

\* What the Rate Source quotes for one unit of base, by target currency.
SourceRates(base) ==
  [c \in Currencies \ {base} |-> IF base = "USD" THEN <<2, 1>> ELSE <<1, 2>>]

\* Outcome of the two HTTP requests of one fetch: does each endpoint answer?
\* (The fallback is only asked when the primary did not answer.)
ApiOutcomes ==
  {[primary |-> TRUE, fallback |-> TRUE],
   [primary |-> FALSE, fallback |-> TRUE],
   [primary |-> FALSE, fallback |-> FALSE]}

fetchExchangeRates(base, api) ==
  IF api.primary \/ api.fallback
    THEN [ok |-> TRUE, base |-> base, rates |-> SourceRates(base)]
    ELSE [ok |-> FALSE]

cachedRate(rows, from, to, date) ==
  {r \in rows : r.fromCurrency = from /\ r.toCurrency = to /\ r.date = date}

\* getExchangeRate after a cache miss, given what the fetch returned: throws
\* when the rate is not in the answer, else stores the rate and returns it.
storeFetchedRate(from, to, date, rows, rateData) ==
  IF ~rateData.ok \/ to \notin DOMAIN rateData.rates
    THEN [ok |-> FALSE, rate |-> Undefined, rows |-> rows]
    ELSE [ok |-> TRUE,
          rate |-> rateData.rates[to],
          rows |-> rows \cup {[fromCurrency |-> from, toCurrency |-> to,
                               date |-> date, rate |-> rateData.rates[to]]}]

\* Returns the rate (or the failure) and the ExchangeRate rows afterwards.
getExchangeRate(from, to, date, rows, api) ==
  IF from = to THEN [ok |-> TRUE, rate |-> One, rows |-> rows]
  ELSE IF cachedRate(rows, from, to, date) # {}
    THEN [ok |-> TRUE,
          rate |-> (CHOOSE r \in cachedRate(rows, from, to, date) : TRUE).rate,
          rows |-> rows]
  ELSE storeFetchedRate(from, to, date, rows, fetchExchangeRates(from, api))

\* The ConversionResult built from a resolved rate r.
conversionResult(amount, from, to, r) ==
  IF r.ok
    THEN [ok |-> TRUE, originalAmount |-> amount,
          convertedAmount |-> RMul(amount, r.rate),
          fromCurrency |-> from, toCurrency |-> to,
          exchangeRate |-> r.rate, rows |-> r.rows]
    ELSE [ok |-> FALSE, rows |-> r.rows]

convertCurrency(amount, from, to, date, rows, api) ==
  conversionResult(amount, from, to, getExchangeRate(from, to, date, rows, api))

-----------------------------------------------------------------------------
(* Double-Entry Validator of src/unnamed/part_007.                         *)

\* The tolerance 0.01 of the balance check.
Tolerance == <<1, 100>>

RECURSIVE SumAmounts(_, _, _)
SumAmounts(entries, i, kind) ==
  IF i > Len(entries) THEN Zero
  ELSE RAdd(IF entries[i].entryType = kind THEN entries[i].amount ELSE Zero,
            SumAmounts(entries, i + 1, kind))

entryCurrencies(entries) ==
  {AccountCurrency[entries[i].accountId] :
     i \in {j \in 1..Len(entries) : entries[j].accountId \in Accounts}}

orAmount(entry) == IF Truthy(entry.originalAmount) THEN entry.originalAmount ELSE entry.amount

\* The try/catch around convertCurrency: the converted amount, or the raw
\* amount of the entry when the conversion threw.
convertedOrRaw(entry, conversion) ==
  IF conversion.ok
    THEN [amount |-> conversion.convertedAmount, rows |-> conversion.rows,
          caught |-> FALSE]
    ELSE [amount |-> entry.amount, rows |-> conversion.rows, caught |-> TRUE]

\* (Mutation of valuateEntry: a declared rate is ignored and every entry of
\* another currency is converted at the resolved rate.)
valuateEntryAtMarket(entry, baseCurrency, rows, api) ==
  IF AccountCurrency[entry.accountId] = baseCurrency
    THEN [amount |-> entry.amount, rows |-> rows, caught |-> FALSE]
    ELSE convertedOrRaw(entry,
           convertCurrency(entry.amount, AccountCurrency[entry.accountId],
                           baseCurrency, Today, rows, api))

\* amountInBase of one entry, with the rows after any rate resolution and
\* whether the conversion threw and was caught.
valuateEntry(entry, baseCurrency, rows, api) ==
  IF AccountCurrency[entry.accountId] = baseCurrency
    THEN [amount |-> entry.amount, rows |-> rows, caught |-> FALSE]
  ELSE IF Truthy(entry.exchangeRate) /\ entry.originalCurrency # Null
    THEN [amount |-> IF entry.originalCurrency = baseCurrency
                       THEN orAmount(entry)
                       ELSE entry.amount,
          rows |-> rows, caught |-> FALSE]
  ELSE convertedOrRaw(entry,
         convertCurrency(entry.amount, AccountCurrency[entry.accountId],
                         baseCurrency, Today, rows, api))

\* totalDebitsInBase / totalCreditsInBase after one more entry valuated as v.
addValuated(acc, entry, v) ==
  [totalDebits |-> IF entry.entryType = "DEBIT"
                     THEN RAdd(acc.totalDebits, v.amount) ELSE acc.totalDebits,
   totalCredits |-> IF entry.entryType = "DEBIT"
                      THEN acc.totalCredits ELSE RAdd(acc.totalCredits, v.amount),
   rows |-> v.rows,
   caught |-> acc.caught \/ v.caught]

RECURSIVE valuateAll(_, _, _, _, _)
valuateAll(entries, i, baseCurrency, acc, api) ==
  IF i > Len(entries) THEN acc
  ELSE IF ~findAccount(entries[i].accountId).found
    THEN valuateAll(entries, i + 1, baseCurrency, acc, api)
  ELSE valuateAll(entries, i + 1, baseCurrency,
                  addValuated(acc, entries[i],
                              valuateEntry(entries[i], baseCurrency, acc.rows, api)),
                  api)

withinTolerance(totalDebits, totalCredits) ==
  RLess(RAbs(RSub(totalDebits, totalCredits)), Tolerance)

\* accounts[0]?.currency || "LKR"
baseCurrencyOf(entries) ==
  IF entries[1].accountId \in Accounts THEN AccountCurrency[entries[1].accountId]
                                       ELSE "LKR"

verdictOf(t) ==
  [ok |-> withinTolerance(t.totalDebits, t.totalCredits),
   rows |-> t.rows, caught |-> t.caught]

\* Returns the verdict, the ExchangeRate rows afterwards and whether a failed
\* conversion was caught on the way.
validateDoubleEntry(entries, rows, api) ==
  IF Cardinality(entryCurrencies(entries)) <= 1
    THEN [ok |-> withinTolerance(SumAmounts(entries, 1, "DEBIT"),
                                 SumAmounts(entries, 1, "CREDIT")),
          rows |-> rows, caught |-> FALSE]
    ELSE verdictOf(valuateAll(entries, 1, baseCurrencyOf(entries),
                              [totalDebits |-> Zero, totalCredits |-> Zero,
                               rows |-> rows, caught |-> FALSE], api))

\* entries.filter(kind).reduce((sum, e) => sum + e.amount, 0), in numbers.
RECURSIVE sumNumbers(_, _, _, _)
sumNumbers(entries, i, kind, sum) ==
  IF i > Len(entries) THEN sum
  ELSE sumNumbers(entries, i + 1, kind,
                  IF entries[i].entryType = kind
                    THEN plus(sum, toNumber(entries[i].amount)) ELSE sum)

\* The validator of src/src/lib/accounting.ts: raw sums of numbers, strict
\* equality.
validateDoubleEntryTA(entries) ==
  sumNumbers(entries, 1, "DEBIT", toNumber(Zero))
    = sumNumbers(entries, 1, "CREDIT", toNumber(Zero))

-----------------------------------------------------------------------------
(* Transaction Composer (src/unnamed/part_007).                            *)

plainEntry(accountId, entryType, amount) ==
  [accountId |-> accountId, entryType |-> entryType, amount |-> amount,
   originalAmount |-> Undefined, originalCurrency |-> Null, exchangeRate |-> Undefined]

fxEntry(accountId, entryType, amount, originalAmount, originalCurrency, exchangeRate) ==
  [accountId |-> accountId, entryType |-> entryType, amount |-> amount,
   originalAmount |-> originalAmount, originalCurrency |-> originalCurrency,
   exchangeRate |-> exchangeRate]

\* (Mutation of incomeEntries: the two sides are exchanged.)
incomeEntriesSwapped(req) ==
  <<plainEntry(req.incomeAccountId, "DEBIT", req.amount),
    plainEntry(req.assetAccountId, "CREDIT", req.amount)>>

transactionInput(transactionType, amount, entries) ==
  [transactionType |-> transactionType, amount |-> amount,
   tagId |-> Null, entries |-> entries]

incomeEntries(req) ==
  <<plainEntry(req.assetAccountId, "DEBIT", req.amount),
    plainEntry(req.incomeAccountId, "CREDIT", req.amount)>>

expenseEntries(req) ==
  <<plainEntry(req.expenseAccountId, "DEBIT", req.amount),
    plainEntry(req.assetAccountId, "CREDIT", req.amount)>>

\* (Mutation of transferEntries: the CREDIT leg carries the rate itself
\* instead of its inverse.)
transferEntriesSameRate(req, fromCurrency, toCurrency, conversion) ==
  IF conversion.converted
    THEN <<fxEntry(req.toAccountId, "DEBIT", conversion.convertedAmount,
                   req.amount, fromCurrency, conversion.exchangeRate),
           fxEntry(req.fromAccountId, "CREDIT", req.amount,
                   conversion.convertedAmount, toCurrency,
                   conversion.exchangeRate)>>
    ELSE <<plainEntry(req.toAccountId, "DEBIT", req.amount),
           plainEntry(req.fromAccountId, "CREDIT", req.amount)>>

\* The entries of a transfer once its conversion (if any) is known.
transferEntries(req, fromCurrency, toCurrency, conversion) ==
  IF conversion.converted
    THEN <<fxEntry(req.toAccountId, "DEBIT", conversion.convertedAmount,
                   req.amount, fromCurrency, conversion.exchangeRate),
           fxEntry(req.fromAccountId, "CREDIT", req.amount,
                   conversion.convertedAmount, toCurrency,
                   RInv(conversion.exchangeRate))>>
    ELSE <<plainEntry(req.toAccountId, "DEBIT", req.amount),
           plainEntry(req.fromAccountId, "CREDIT", req.amount)>>

\* The input of createTransaction for a converted transfer.
convertedTransfer(req, fromCurrency, toCurrency, c) ==
  IF ~c.ok
    THEN [ok |-> FALSE, error |-> "RateUnavailable", rows |-> c.rows]
    ELSE [ok |-> TRUE, rows |-> c.rows,
          input |-> transactionInput("TRANSFER", req.amount,
                      transferEntries(req, fromCurrency, toCurrency,
                        [converted |-> TRUE,
                         convertedAmount |-> c.convertedAmount,
                         exchangeRate |-> c.exchangeRate]))]

\* The ConversionResult built from a customExchangeRate.
customConversion(req, rows) ==
  [ok |-> TRUE, convertedAmount |-> RMul(req.amount, req.customExchangeRate),
   exchangeRate |-> req.customExchangeRate, rows |-> rows]

composeWithCurrencies(req, fromCurrency, toCurrency, rows, api) ==
  IF fromCurrency = toCurrency
    THEN [ok |-> TRUE, rows |-> rows,
          input |-> transactionInput("TRANSFER", req.amount,
                      transferEntries(req, fromCurrency, toCurrency,
                                      [converted |-> FALSE]))]
  ELSE IF Truthy(req.customExchangeRate)
    THEN convertedTransfer(req, fromCurrency, toCurrency, customConversion(req, rows))
    ELSE convertedTransfer(req, fromCurrency, toCurrency,
           convertCurrency(req.amount, fromCurrency, toCurrency, Today, rows, api))

\* createTransferTransaction up to its call of createTransaction: the input
\* it composes (or the error it throws) and the ExchangeRate rows afterwards.
composeTransfer(req, rows, api) ==
  IF req.fromAccountId \notin Accounts \/ req.toAccountId \notin Accounts
    THEN [ok |-> FALSE, error |-> "AccountNotFound", rows |-> rows]
    ELSE composeWithCurrencies(req,
           IF req.fromCurrency # Null THEN req.fromCurrency
                                      ELSE AccountCurrency[req.fromAccountId],
           IF req.toCurrency # Null THEN req.toCurrency
                                    ELSE AccountCurrency[req.toAccountId],
           rows, api)

-----------------------------------------------------------------------------
(* Requests the clients may send.                                          *)

Half == <<1, 2>>
Two == <<2, 1>>
Three == <<3, 1>>
OnePlusHalfCent == <<201, 200>>
FiftySevenCents == <<57, 100>>

\* Entry sets handed to createTransaction directly.
EntrySets ==
  { \* balanced, one currency
    <<plainEntry("Checking", "DEBIT", One), plainEntry("Salary", "CREDIT", One)>>,
    \* borrowing: a LIABILITY account credited
    <<plainEntry("Checking", "DEBIT", One), plainEntry("Loan", "CREDIT", One)>>,
    \* unbalanced, one currency
    <<plainEntry("Checking", "DEBIT", Two), plainEntry("Salary", "CREDIT", One)>>,
    \* off by 0.005: inside the tolerance
    <<plainEntry("Checking", "DEBIT", OnePlusHalfCent), plainEntry("Salary", "CREDIT", One)>>,
    \* two entries with the same (account, entryType): unique index
    <<plainEntry("Checking", "DEBIT", One), plainEntry("Checking", "DEBIT", One),
      plainEntry("Salary", "CREDIT", Two)>>,
    \* two currencies, no declared rate, balanced at the quoted rate
    <<plainEntry("Checking", "DEBIT", Two), plainEntry("Dollar", "CREDIT", One)>>,
    \* two currencies, no declared rate, equal raw amounts
    <<plainEntry("Checking", "DEBIT", One), plainEntry("Dollar", "CREDIT", One)>>,
    \* two currencies, declared rate whose original currency is not the base
    <<plainEntry("Checking", "DEBIT", One),
      fxEntry("Dollar", "CREDIT", One, One, "USD", Two)>> }

TransactionRequests ==
  {[kind |-> "createTransaction", input |-> transactionInput("INCOME", One, es)] :
     es \in EntrySets}

incomeRequest(assetAccountId, incomeAccountId, amount) ==
  [kind |-> "createIncomeTransaction", amount |-> amount,
   assetAccountId |-> assetAccountId, incomeAccountId |-> incomeAccountId]

IncomeRequests ==
  {incomeRequest("Checking", "Salary", One),
   incomeRequest("Checking", "Salary", Zero),
   incomeRequest("Ghost", "Salary", One),
   incomeRequest("Savings", "Salary", FiftySevenCents)}

expenseRequest(assetAccountId, expenseAccountId, amount) ==
  [kind |-> "createExpenseTransaction", amount |-> amount,
   assetAccountId |-> assetAccountId, expenseAccountId |-> expenseAccountId]

ExpenseRequests ==
  {expenseRequest("Checking", "Food", One),
   expenseRequest("Savings", "Food", Two)}

transferRequest(fromAccountId, toAccountId, amount, customExchangeRate) ==
  [kind |-> "createTransferTransaction", amount |-> amount,
   fromAccountId |-> fromAccountId, toAccountId |-> toAccountId,
   fromCurrency |-> Null, toCurrency |-> Null,
   customExchangeRate |-> customExchangeRate]

TransferRequests ==
  {transferRequest("Checking", "Savings", One, Undefined),
   transferRequest("Dollar", "Savings", One, Undefined),
   transferRequest("Dollar", "Savings", One, Three),
   transferRequest("Ghost", "Savings", One, Undefined)}

NoRequest == [kind |-> "none"]

Tags == {"Vehicle", "Vacation"}

\* A TagBalance row; id 0 stands for "no row".
NoRow == [id |-> 0, balance |-> Zero]

\* Vehicle holds 3 of the 10 in Checking when the behaviour starts.
InitialTagBalances ==
  [k \in Tags \X Accounts |->
     IF k = <<"Vehicle", "Checking">> THEN [id |-> -1, balance |-> Three] ELSE NoRow]

NoReport ==
  [isValid |-> FALSE, totalTagBalances |-> Zero, accountBalance |-> Zero,
   availableBalance |-> Zero]

\* No rate fetched (fetchExchangeRates returned null, or has not run).
NoRateData == [ok |-> FALSE]

NoResolving ==
  [request |-> NoRequest, fromCurrency |-> Null, toCurrency |-> Null,
   date |-> <<0, 0>>, rateData |-> NoRateData, rate |-> Undefined, log |-> <<>>,
   currencies |-> <<>>]

NoRateHistory == [returned |-> {}, refreshed |-> {}]

NoAlloc ==
  [op |-> "none", tagId |-> Null, accountId |-> Null, amount |-> Zero,
   accountBalance |-> Zero, existing |-> 0, current |-> Zero, calledFor |-> 0]

-----------------------------------------------------------------------------
(* State of the clients.                                                   *)

NoInput == [transactionType |-> "none"]
NoCall == [id |-> 0, req |-> NoRequest, input |-> NoInput]
NoLocal == [validated |-> FALSE, verdict |-> FALSE, caught |-> FALSE]
\* What a finished call leaves with its client: the kind of call, the id it
\* ran under, and the value returned or the error thrown.
NoResult == [status |-> "none", error |-> Null, kind |-> "none", id |-> 0]
Ok(kind, id) == [status |-> "ok", error |-> Null, kind |-> kind, id |-> id]
Failed(kind, id, error) == [status |-> "error", error |-> error, kind |-> kind, id |-> id]

EmptyTxn ==
  [headers |-> {}, entries |-> {},
   increments |-> [a \in Accounts |-> Zero],
   writes |-> [a \in Accounts |-> Undefined]]

InTransaction == {"open", "header", "created", "updated"}

Init ==
  /\ balance = InitialBalance
  /\ transactions = {}
  /\ transactionEntries = {}
  /\ exchangeRates = {}
  /\ calls = 0
  /\ pc = [p \in Clients |-> "idle"]
  /\ call = [p \in Clients |-> NoCall]
  /\ local = [p \in Clients |-> NoLocal]
  /\ txn = [p \in Clients |-> EmptyTxn]
  /\ result = [p \in Clients |-> NoResult]
  /\ tagBalances = InitialTagBalances
  /\ alloc = [p \in Clients |-> NoAlloc]
  /\ allocated = [k \in Tags \X Accounts |-> InitialTagBalances[k].balance]
  /\ report = [p \in Clients |-> NoReport]
  /\ tagIds = Tags
  /\ resolving = [p \in Clients |-> NoResolving]
  /\ rateHistory = NoRateHistory
  /\ balanceTA = [a \in Accounts |-> toNumber(InitialBalance[a])]

\* A call that throws before createTransaction is reached.
failCall(p, req, error, rows) ==
  /\ calls' = calls + 1
  /\ call' = [call EXCEPT ![p] = NoCall]
  /\ local' = [local EXCEPT ![p] = NoLocal]
  /\ txn' = [txn EXCEPT ![p] = EmptyTxn]
  /\ pc' = [pc EXCEPT ![p] = "idle"]
  /\ result' = [result EXCEPT ![p] = Failed(req.kind, calls + 1, error)]
  /\ exchangeRates' = rows
  /\ UNCHANGED <<ledger, tagVars, rateVars, balanceTA>>

-----------------------------------------------------------------------------
(* Ledger Transaction Executor of src/unnamed/part_007.                    *)

\* (Mutation of validated: the transaction opens whatever the verdict.)
validatedRegardless(p, req, input, v) ==
  /\ calls' = calls + 1
  /\ exchangeRates' = v.rows
  /\ txn' = [txn EXCEPT ![p] = EmptyTxn]
  /\ pc' = [pc EXCEPT ![p] = "open"]
  /\ call' = [call EXCEPT ![p] = [id |-> calls + 1, req |-> req, input |-> input]]
  /\ local' = [local EXCEPT ![p] =
                 [validated |-> TRUE, verdict |-> v.ok, caught |-> v.caught]]
  /\ result' = [result EXCEPT ![p] = NoResult]
  /\ UNCHANGED <<ledger, tagVars, rateVars, balanceTA>>

\* createTransaction up to the opening of prisma.$transaction: the validator
\* runs, and a false verdict is thrown as "Total debits must equal total credits".
validated(p, req, input, v) ==
  /\ calls' = calls + 1
  /\ txn' = [txn EXCEPT ![p] = EmptyTxn]
  /\ exchangeRates' = v.rows
  /\ IF v.ok
       THEN /\ pc' = [pc EXCEPT ![p] = "open"]
            /\ call' = [call EXCEPT ![p] =
                          [id |-> calls + 1, req |-> req, input |-> input]]
            /\ local' = [local EXCEPT ![p] =
                           [validated |-> TRUE, verdict |-> TRUE, caught |-> v.caught]]
            /\ result' = [result EXCEPT ![p] = NoResult]
       ELSE /\ pc' = [pc EXCEPT ![p] = "idle"]
            /\ call' = [call EXCEPT ![p] = NoCall]
            /\ local' = [local EXCEPT ![p] =
                           [validated |-> TRUE, verdict |-> FALSE, caught |-> v.caught]]
            /\ result' = [result EXCEPT ![p] =
                            Failed(req.kind, calls + 1, "UnbalancedEntry")]
  /\ UNCHANGED <<ledger, tagVars, rateVars, balanceTA>>

beginTransaction(p, req, input, rows, api) ==
  validated(p, req, input, validateDoubleEntry(input.entries, rows, api))

createTransaction(p) ==
  /\ pc[p] = "idle" /\ calls < MaxCalls
  /\ \E req \in TransactionRequests, api \in ApiOutcomes :
       beginTransaction(p, req, req.input, exchangeRates, api)

createIncomeTransaction(p) ==
  /\ pc[p] = "idle" /\ calls < MaxCalls
  /\ \E req \in IncomeRequests, api \in ApiOutcomes :
       beginTransaction(p, req,
                        transactionInput("INCOME", req.amount, incomeEntries(req)),
                        exchangeRates, api)

createExpenseTransaction(p) ==
  /\ pc[p] = "idle" /\ calls < MaxCalls
  /\ \E req \in ExpenseRequests, api \in ApiOutcomes :
       beginTransaction(p, req,
                        transactionInput("EXPENSE", req.amount, expenseEntries(req)),
                        exchangeRates, api)

\* createTransferTransaction once its input is composed as c.
transferComposed(p, req, c, api) ==
  IF c.ok THEN beginTransaction(p, req, c.input, c.rows, api)
          ELSE failCall(p, req, c.error, c.rows)

createTransferTransaction(p) ==
  /\ pc[p] = "idle" /\ calls < MaxCalls
  /\ \E req \in TransferRequests, api \in ApiOutcomes :
       transferComposed(p, req, composeTransfer(req, exchangeRates, api), api)

\* The rows tx.transaction.create and tx.transactionEntry.create insert.
headerRow(id, input) ==
  [id |-> id, transactionType |-> input.transactionType, amount |-> input.amount,
   tagId |-> input.tagId]

\* position stands for the creation order of the rows (id / createdAt).
entryRow(id, position, entry) ==
  [transactionId |-> id, position |-> position,
   accountId |-> entry.accountId, entryType |-> entry.entryType,
   debitAmount |-> IF entry.entryType = "DEBIT" THEN entry.amount ELSE Zero,
   creditAmount |-> IF entry.entryType = "CREDIT" THEN entry.amount ELSE Zero,
   originalAmount |-> entry.originalAmount, originalCurrency |-> entry.originalCurrency,
   exchangeRate |-> entry.exchangeRate]

entryRows(id, entries) == {entryRow(id, i, entries[i]) : i \in 1..Len(entries)}

\* Constraints of the transaction_entries table.
missingAccount(entries) == \E i \in 1..Len(entries) : entries[i].accountId \notin Accounts
duplicateKey(entries) ==
  \E i, j \in 1..Len(entries) :
    i # j /\ entries[i].accountId = entries[j].accountId
          /\ entries[i].entryType = entries[j].entryType

\* (Mutation of rollback: the header written before the error stays.)
rollbackKeepingHeader(p, error) ==
  /\ transactions' = transactions \cup txn[p].headers
  /\ txn' = [txn EXCEPT ![p] = EmptyTxn]
  /\ pc' = [pc EXCEPT ![p] = "idle"]
  /\ call' = [call EXCEPT ![p] = NoCall]
  /\ local' = [local EXCEPT ![p] = NoLocal]
  /\ result' = [result EXCEPT ![p] = Failed(call[p].req.kind, call[p].id, error)]
  /\ UNCHANGED <<balance, transactionEntries, exchangeRates, calls, tagVars, rateVars, balanceTA>>

\* An error inside prisma.$transaction: the buffered writes are dropped and
\* the error is rethrown to the caller.
rollback(p, error) ==
  /\ txn' = [txn EXCEPT ![p] = EmptyTxn]
  /\ pc' = [pc EXCEPT ![p] = "idle"]
  /\ call' = [call EXCEPT ![p] = NoCall]
  /\ local' = [local EXCEPT ![p] = NoLocal]
  /\ result' = [result EXCEPT ![p] = Failed(call[p].req.kind, call[p].id, error)]
  /\ UNCHANGED <<ledger, exchangeRates, calls, tagVars, rateVars, balanceTA>>

\* Constraint transactions_tagId_fkey of the transactions table.
missingTag(input) == input.tagId # Null /\ input.tagId \notin tagIds

\* tx.transaction.create
txCreateHeader(p) ==
  /\ pc[p] = "open"
  /\ IF missingTag(call[p].input) THEN rollback(p, "ForeignKeyConstraint")
     ELSE /\ txn' = [txn EXCEPT ![p].headers = {headerRow(call[p].id, call[p].input)}]
          /\ pc' = [pc EXCEPT ![p] = "header"]
          /\ UNCHANGED <<ledger, exchangeRates, calls, call, local, result, tagVars, rateVars, balanceTA>>

\* tx.transactionEntry.create for every entry
txCreateEntries(p) ==
  /\ pc[p] = "header"
  /\ IF missingAccount(call[p].input.entries) THEN rollback(p, "ForeignKeyConstraint")
     ELSE IF duplicateKey(call[p].input.entries) THEN rollback(p, "UniqueConstraint")
     ELSE /\ txn' = [txn EXCEPT
                       ![p].entries = entryRows(call[p].id, call[p].input.entries)]
          /\ pc' = [pc EXCEPT ![p] = "created"]
          /\ UNCHANGED <<ledger, exchangeRates, calls, call, local, result, tagVars, rateVars, balanceTA>>

\* (Mutation of balanceChange: the entry kind is ignored.)
balanceChangeUnsigned(entry) == entry.amount

\* balanceChange of one entry: signed by the entry kind alone.
balanceChange(entry) ==
  IF entry.entryType = "DEBIT" THEN entry.amount ELSE RNeg(entry.amount)

RECURSIVE incrementAll(_, _, _)
incrementAll(entries, i, increments) ==
  IF i > Len(entries) THEN increments
  ELSE incrementAll(entries, i + 1,
         [increments EXCEPT ![entries[i].accountId] =
            RAdd(@, balanceChange(entries[i]))])

\* The loop of tx.account.update({ balance: { increment } }).
txUpdateBalances(p) ==
  /\ pc[p] = "created"
  /\ txn' = [txn EXCEPT ![p].increments =
               incrementAll(call[p].input.entries, 1, txn[p].increments)]
  /\ pc' = [pc EXCEPT ![p] = "updated"]
  /\ UNCHANGED <<ledger, exchangeRates, calls, call, local, result, tagVars, rateVars, balanceTA>>

\* The store applies the buffered writes of a transaction in one step.
applyWrites(t, bal) ==
  [a \in Accounts |->
     RAdd(IF t.writes[a] # Undefined THEN t.writes[a] ELSE bal[a], t.increments[a])]

txCommit(p) ==
  /\ pc[p] = "updated"
  /\ transactions' = transactions \cup txn[p].headers
  /\ transactionEntries' = transactionEntries \cup txn[p].entries
  /\ balance' = applyWrites(txn[p], balance)
  /\ txn' = [txn EXCEPT ![p] = EmptyTxn]
  /\ pc' = [pc EXCEPT ![p] = "idle"]
  /\ call' = [call EXCEPT ![p] = NoCall]
  /\ local' = [local EXCEPT ![p] = NoLocal]
  /\ result' = [result EXCEPT ![p] = Ok(call[p].req.kind, call[p].id)]
  /\ UNCHANGED <<exchangeRates, calls, tagVars, rateVars, balanceTA>>

\* The store raises an error (connection lost, timeout, deadlock) inside the
\* transaction.
storeFailure(p) ==
  /\ pc[p] \in InTransaction
  /\ rollback(p, "StoreFailure")

Next ==
  \E p \in Clients :
    \/ createTransaction(p)
    \/ createIncomeTransaction(p)
    \/ createExpenseTransaction(p)
    \/ createTransferTransaction(p)
    \/ txCreateHeader(p)
    \/ txCreateEntries(p)
    \/ txUpdateBalances(p)
    \/ txCommit(p)
    \/ storeFailure(p)

Spec == Init /\ [][Next]_vars

-----------------------------------------------------------------------------
(* AccountingService of src/src/lib/accounting.ts: strict validator, and   *)
(* balances written as values computed from a read inside the transaction. *)
(* The store runs transactions at READ COMMITTED: a read sees the last     *)
(* committed value, or the transaction's own write.                        *)

EntrySetsTA ==
  {es \in EntrySets :
     \A i \in 1..Len(es) : es[i].originalCurrency = Null /\ es[i].accountId # "Dollar"}

TransactionRequestsTA ==
  {[kind |-> "createTransaction", input |-> transactionInput("INCOME", One, es)] :
     es \in EntrySetsTA}

TransferRequestsTA ==
  {r \in TransferRequests : r.customExchangeRate = Undefined /\ r.fromAccountId # "Dollar"}

\* Whole amounts: every balance newBalance computes from them is a number
\* without rounding, so the rationals of this specification are the numbers
\* the code writes.
IncomeRequestsTA == {r \in IncomeRequests : r.amount[2] = 1}

validatedTA(p, req, input, ok) ==
  /\ calls' = calls + 1
  /\ txn' = [txn EXCEPT ![p] = EmptyTxn]
  /\ IF ok
       THEN /\ pc' = [pc EXCEPT ![p] = "open"]
            /\ call' = [call EXCEPT ![p] =
                          [id |-> calls + 1, req |-> req, input |-> input]]
            /\ local' = [local EXCEPT ![p] =
                           [validated |-> TRUE, verdict |-> TRUE, caught |-> FALSE]]
            /\ result' = [result EXCEPT ![p] = NoResult]
       ELSE /\ pc' = [pc EXCEPT ![p] = "idle"]
            /\ call' = [call EXCEPT ![p] = NoCall]
            /\ local' = [local EXCEPT ![p] =
                           [validated |-> TRUE, verdict |-> FALSE, caught |-> FALSE]]
            /\ result' = [result EXCEPT ![p] =
                            Failed(req.kind, calls + 1, "UnbalancedEntry")]
  /\ UNCHANGED <<ledger, exchangeRates, tagVars, rateVars, balanceTA>>

beginTransactionTA(p, req, input) ==
  validatedTA(p, req, input, validateDoubleEntryTA(input.entries))

createTransactionTA(p) ==
  /\ pc[p] = "idle" /\ calls < MaxCalls
  /\ \E req \in TransactionRequestsTA : beginTransactionTA(p, req, req.input)

createIncomeTransactionTA(p) ==
  /\ pc[p] = "idle" /\ calls < MaxCalls
  /\ \E req \in IncomeRequestsTA :
       beginTransactionTA(p, req,
                          transactionInput("INCOME", req.amount, incomeEntries(req)))

createExpenseTransactionTA(p) ==
  /\ pc[p] = "idle" /\ calls < MaxCalls
  /\ \E req \in ExpenseRequests :
       beginTransactionTA(p, req,
                          transactionInput("EXPENSE", req.amount, expenseEntries(req)))

createTransferTransactionTA(p) ==
  /\ pc[p] = "idle" /\ calls < MaxCalls
  /\ \E req \in TransferRequestsTA :
       beginTransactionTA(p, req,
         transactionInput("TRANSFER", req.amount,
           <<plainEntry(req.toAccountId, "DEBIT", req.amount),
             plainEntry(req.fromAccountId, "CREDIT", req.amount)>>))

\* newBalance of one entry: signed by the entry kind and the account type.
newBalanceTA(type, entryType, current, amount) ==
  IF entryType = "DEBIT"
    THEN IF type \in {"ASSET", "EXPENSE"} THEN RAdd(current, amount)
                                         ELSE RSub(current, amount)
    ELSE IF type \in {"ASSET", "EXPENSE"} THEN RSub(current, amount)
                                         ELSE RAdd(current, amount)

\* tx.account.findUnique inside the transaction.
readBalance(writes, bal, a) == IF writes[a] # Undefined THEN writes[a] ELSE bal[a]

RECURSIVE writeAll(_, _, _, _)
writeAll(entries, i, writes, bal) ==
  IF i > Len(entries) THEN writes
  ELSE writeAll(entries, i + 1,
         [writes EXCEPT ![entries[i].accountId] =
            newBalanceTA(AccountType[entries[i].accountId], entries[i].entryType,
                         readBalance(writes, bal, entries[i].accountId),
                         entries[i].amount)],
         bal)

\* The loop of tx.account.findUnique and tx.account.update({ balance: newBalance }).
txUpdateBalancesTA(p) ==
  /\ pc[p] = "created"
  /\ txn' = [txn EXCEPT ![p].writes =
               writeAll(call[p].input.entries, 1, txn[p].writes, balance)]
  /\ pc' = [pc EXCEPT ![p] = "updated"]
  /\ UNCHANGED <<ledger, exchangeRates, calls, call, local, result, tagVars, rateVars, balanceTA>>

NextTA ==
  \E p \in Clients :
    \/ createTransactionTA(p)
    \/ createIncomeTransactionTA(p)
    \/ createExpenseTransactionTA(p)
    \/ createTransferTransactionTA(p)
    \/ txCreateHeader(p)
    \/ txCreateEntries(p)
    \/ txUpdateBalancesTA(p)
    \/ txCommit(p)
    \/ storeFailure(p)

SpecTA == Init /\ [][NextTA]_vars

-----------------------------------------------------------------------------
(* Tag Balance Allocator (TagBalanceService) and the tagged variants of     *)
(* src/unnamed/part_007.  Neither assignMoneyToTag nor removeMoneyFromTag   *)
(* opens a transaction: each await is a step of its own.                    *)

Eight == <<8, 1>>

assignRequest(tagId, accountId, amount) ==
  [kind |-> "assignMoneyToTag", tagId |-> tagId, accountId |-> accountId,
   amount |-> amount]

\* The route accepts amount > 0 only.  "Ghost" names no account and no tag.
AssignRequests ==
  {assignRequest("Vehicle", "Checking", One),
   assignRequest("Vehicle", "Checking", Eight),
   assignRequest("Vacation", "Checking", Eight),
   assignRequest("Vehicle", "Ghost", One),
   assignRequest("Ghost", "Checking", One)}

removeRequest(tagId, accountId, amount) ==
  [kind |-> "removeMoneyFromTag", tagId |-> tagId, accountId |-> accountId,
   amount |-> amount]

RemoveRequests ==
  {removeRequest("Vehicle", "Checking", Two),
   removeRequest("Vehicle", "Checking", Three),
   removeRequest("Vehicle", "Checking", Eight),
   removeRequest("Vacation", "Checking", One)}

taggedTransferRequest(tagId, fromAccountId, toAccountId, amount) ==
  [kind |-> "createTaggedTransferTransaction", amount |-> amount, tagId |-> tagId,
   fromAccountId |-> fromAccountId, toAccountId |-> toAccountId,
   fromCurrency |-> Null, toCurrency |-> Null, customExchangeRate |-> Undefined]

TaggedTransferRequests == {taggedTransferRequest("Vehicle", "Checking", "Savings", One)}

taggedExpenseRequest(tagId, assetAccountId, expenseAccountId, amount) ==
  [kind |-> "createTaggedExpenseTransaction", amount |-> amount, tagId |-> tagId,
   assetAccountId |-> assetAccountId, expenseAccountId |-> expenseAccountId]

TaggedExpenseRequests ==
  {taggedExpenseRequest("Vehicle", "Checking", "Food", Two),
   taggedExpenseRequest("Vehicle", "Checking", "Food", Three),
   taggedExpenseRequest("Vacation", "Checking", "Food", One)}

taggedIncomeRequest(tagId, assetAccountId, incomeAccountId, amount) ==
  [kind |-> "createTaggedIncomeTransaction", amount |-> amount, tagId |-> tagId,
   assetAccountId |-> assetAccountId, incomeAccountId |-> incomeAccountId]

TaggedIncomeRequests ==
  {taggedIncomeRequest("Vehicle", "Checking", "Salary", One),
   taggedIncomeRequest("Vehicle", "Ghost", "Salary", One)}

TaggedKinds ==
  {"createTaggedTransferTransaction", "createTaggedExpenseTransaction",
   "createTaggedIncomeTransaction"}

\* The input of the physical posting of a tagged variant carries the tag.
taggedInput(input, tagId) == [input EXCEPT !.tagId = tagId]

withTag(c, tagId) == IF c.ok THEN [c EXCEPT !.input = taggedInput(c.input, tagId)] ELSE c

createTaggedTransferTransaction(p) ==
  /\ pc[p] = "idle" /\ calls < MaxCalls
  /\ \E req \in TaggedTransferRequests, api \in ApiOutcomes :
       transferComposed(p, req,
                        withTag(composeTransfer(req, exchangeRates, api), req.tagId), api)

createTaggedExpenseTransaction(p) ==
  /\ pc[p] = "idle" /\ calls < MaxCalls
  /\ \E req \in TaggedExpenseRequests, api \in ApiOutcomes :
       beginTransaction(p, req,
         taggedInput(transactionInput("EXPENSE", req.amount, expenseEntries(req)),
                     req.tagId),
         exchangeRates, api)

createTaggedIncomeTransaction(p) ==
  /\ pc[p] = "idle" /\ calls < MaxCalls
  /\ \E req \in TaggedIncomeRequests, api \in ApiOutcomes :
       beginTransaction(p, req,
         taggedInput(transactionInput("INCOME", req.amount, incomeEntries(req)),
                     req.tagId),
         exchangeRates, api)

\* The physical posting of a tagged variant commits and returns to the
\* variant, which has the allocator still to call.
txCommitTagged(p) ==
  /\ pc[p] = "updated"
  /\ call[p].req.kind \in TaggedKinds
  /\ transactions' = transactions \cup txn[p].headers
  /\ transactionEntries' = transactionEntries \cup txn[p].entries
  /\ balance' = applyWrites(txn[p], balance)
  /\ txn' = [txn EXCEPT ![p] = EmptyTxn]
  /\ pc' = [pc EXCEPT ![p] = "committed"]
  /\ local' = [local EXCEPT ![p] = NoLocal]
  /\ UNCHANGED <<exchangeRates, calls, call, result, tagVars, rateVars, balanceTA>>

\* The process stops after the posting and before the allocator is called.
processStops(p) ==
  /\ pc[p] = "committed"
  /\ pc' = [pc EXCEPT ![p] = "idle"]
  /\ call' = [call EXCEPT ![p] = NoCall]
  /\ result' = [result EXCEPT ![p] =
                  [status |-> "stopped", error |-> Null, kind |-> call[p].req.kind,
                   id |-> call[p].id]]
  /\ UNCHANGED <<ledger, exchangeRates, calls, local, txn, tagVars, rateVars, balanceTA>>

\* (Mutation of allocation: a tagged transfer assigns on the source account.)
allocationOnSource(req) ==
  CASE req.kind = "createTaggedIncomeTransaction" ->
         [op |-> "assign", tagId |-> req.tagId, accountId |-> req.assetAccountId,
          amount |-> req.amount]
    [] req.kind = "createTaggedTransferTransaction" ->
         [op |-> "assign", tagId |-> req.tagId, accountId |-> req.fromAccountId,
          amount |-> req.amount]
    [] req.kind = "createTaggedExpenseTransaction" ->
         [op |-> "remove", tagId |-> req.tagId, accountId |-> req.assetAccountId,
          amount |-> req.amount]
    [] req.kind = "assignMoneyToTag" ->
         [op |-> "assign", tagId |-> req.tagId, accountId |-> req.accountId,
          amount |-> req.amount]
    [] req.kind = "removeMoneyFromTag" ->
         [op |-> "remove", tagId |-> req.tagId, accountId |-> req.accountId,
          amount |-> req.amount]

\* What a call asks of the allocator: assign for TaggedIncome (asset account)
\* and TaggedTransfer (destination account), remove for TaggedExpense.
allocation(req) ==
  CASE req.kind = "createTaggedIncomeTransaction" ->
         [op |-> "assign", tagId |-> req.tagId, accountId |-> req.assetAccountId,
          amount |-> req.amount]
    [] req.kind = "createTaggedTransferTransaction" ->
         [op |-> "assign", tagId |-> req.tagId, accountId |-> req.toAccountId,
          amount |-> req.amount]
    [] req.kind = "createTaggedExpenseTransaction" ->
         [op |-> "remove", tagId |-> req.tagId, accountId |-> req.assetAccountId,
          amount |-> req.amount]
    [] req.kind = "assignMoneyToTag" ->
         [op |-> "assign", tagId |-> req.tagId, accountId |-> req.accountId,
          amount |-> req.amount]
    [] req.kind = "removeMoneyFromTag" ->
         [op |-> "remove", tagId |-> req.tagId, accountId |-> req.accountId,
          amount |-> req.amount]

\* The TagBalance row of the running allocator call of p.
rowKey(p) == <<alloc[p].tagId, alloc[p].accountId>>

\* The locals of an allocator call of c that has read the account.
entered(a, c, accountBalance, row) ==
  [op |-> a.op, tagId |-> a.tagId, accountId |-> a.accountId, amount |-> a.amount,
   accountBalance |-> accountBalance, existing |-> row.id, current |-> row.balance,
   calledFor |-> c.id]

\* The allocator call of c is over: its locals are gone, what it was called
\* with and for which call stays on record.
finished(c) ==
  [NoAlloc EXCEPT !.calledFor = c.id, !.op = allocation(c.req).op,
                  !.tagId = allocation(c.req).tagId,
                  !.accountId = allocation(c.req).accountId,
                  !.amount = allocation(c.req).amount]

\* (Mutation of allocatorThrows: the posting of the call is undone as well.)
allocatorThrowsAndUndoes(p, c, error) ==
  /\ pc' = [pc EXCEPT ![p] = "idle"]
  /\ call' = [call EXCEPT ![p] = NoCall]
  /\ alloc' = [alloc EXCEPT ![p] = finished(c)]
  /\ result' = [result EXCEPT ![p] = Failed(c.req.kind, c.id, error)]
  /\ transactions' = {t \in transactions : t.id # c.id}
  /\ transactionEntries' = {e \in transactionEntries : e.transactionId # c.id}
  /\ UNCHANGED <<balance, exchangeRates, local, txn, tagBalances, allocated, report, tagIds, rateVars, balanceTA>>

\* The allocator throws: the call of c ends with the error.
allocatorThrows(p, c, error) ==
  /\ pc' = [pc EXCEPT ![p] = "idle"]
  /\ call' = [call EXCEPT ![p] = NoCall]
  /\ alloc' = [alloc EXCEPT ![p] = finished(c)]
  /\ result' = [result EXCEPT ![p] = Failed(c.req.kind, c.id, error)]
  /\ UNCHANGED <<ledger, exchangeRates, local, txn, tagBalances, allocated, report, tagIds, rateVars, balanceTA>>

\* The allocator returns: the call of p ends successfully.
allocatorReturns(p) ==
  /\ pc' = [pc EXCEPT ![p] = "idle"]
  /\ call' = [call EXCEPT ![p] = NoCall]
  /\ alloc' = [alloc EXCEPT ![p] = finished(call[p])]
  /\ result' = [result EXCEPT ![p] = Ok(call[p].req.kind, call[p].id)]
  /\ allocated' = [allocated EXCEPT ![rowKey(p)] =
                     IF alloc[p].op = "assign" THEN RAdd(@, alloc[p].amount)
                     ELSE RSub(@, alloc[p].amount)]
  /\ UNCHANGED <<ledger, exchangeRates, calls, local, txn, report, tagIds, rateVars, balanceTA>>

\* (Mutation of assignEnters: a missing tag is reported as a missing account.)
assignEntersOneError(p, a, c) ==
  IF a.accountId \notin Accounts THEN allocatorThrows(p, c, "AccountNotFound")
  ELSE IF a.tagId \notin tagIds THEN allocatorThrows(p, c, "AccountNotFound")
  ELSE /\ pc' = [pc EXCEPT ![p] = "assignCheck"]
       /\ call' = [call EXCEPT ![p] = c]
       /\ alloc' = [alloc EXCEPT ![p] = entered(a, c, balance[a.accountId], NoRow)]
       /\ result' = [result EXCEPT ![p] = NoResult]
       /\ UNCHANGED <<ledger, exchangeRates, local, txn, tagBalances, allocated, report, tagIds, rateVars, balanceTA>>

\* assignMoneyToTag, first awaits: the account (with its balance) and the tag
\* are looked up.
assignEnters(p, a, c) ==
  IF a.accountId \notin Accounts THEN allocatorThrows(p, c, "AccountNotFound")
  ELSE IF a.tagId \notin tagIds THEN allocatorThrows(p, c, "TagNotFound")
  ELSE /\ pc' = [pc EXCEPT ![p] = "assignCheck"]
       /\ call' = [call EXCEPT ![p] = c]
       /\ alloc' = [alloc EXCEPT ![p] = entered(a, c, balance[a.accountId], NoRow)]
       /\ result' = [result EXCEPT ![p] = NoResult]
       /\ UNCHANGED <<ledger, exchangeRates, local, txn, tagBalances, allocated, report, tagIds, rateVars, balanceTA>>

\* (Mutation of removeEnters: the amount is not compared with the balance.)
removeEntersUnchecked(p, a, c) ==
  IF a.accountId \notin Accounts THEN allocatorThrows(p, c, "AccountNotFound")
  ELSE IF tagBalances[<<a.tagId, a.accountId>>].id = 0
    THEN allocatorThrows(p, c, "TagBalanceNotFound")
  ELSE /\ pc' = [pc EXCEPT ![p] = "removeWrite"]
       /\ call' = [call EXCEPT ![p] = c]
       /\ alloc' = [alloc EXCEPT ![p] =
                      entered(a, c, Zero, tagBalances[<<a.tagId, a.accountId>>])]
       /\ result' = [result EXCEPT ![p] = NoResult]
       /\ UNCHANGED <<ledger, exchangeRates, local, txn, tagBalances, allocated, report, tagIds, rateVars, balanceTA>>

\* removeMoneyFromTag up to its write: the account and the row are looked up
\* and the amount is compared with the balance read.
removeEnters(p, a, c) ==
  IF a.accountId \notin Accounts THEN allocatorThrows(p, c, "AccountNotFound")
  ELSE IF tagBalances[<<a.tagId, a.accountId>>].id = 0
    THEN allocatorThrows(p, c, "TagBalanceNotFound")
  ELSE IF RLess(tagBalances[<<a.tagId, a.accountId>>].balance, a.amount)
    THEN allocatorThrows(p, c, "InsufficientTagBalance")
  ELSE /\ pc' = [pc EXCEPT ![p] = "removeWrite"]
       /\ call' = [call EXCEPT ![p] = c]
       /\ alloc' = [alloc EXCEPT ![p] =
                      entered(a, c, Zero, tagBalances[<<a.tagId, a.accountId>>])]
       /\ result' = [result EXCEPT ![p] = NoResult]
       /\ UNCHANGED <<ledger, exchangeRates, local, txn, tagBalances, allocated, report, tagIds, rateVars, balanceTA>>

allocatorEnters(p, a, c) ==
  IF a.op = "assign" THEN assignEnters(p, a, c) ELSE removeEnters(p, a, c)

\* POST /api/tag-balances
assignMoneyToTag(p) ==
  /\ pc[p] = "idle" /\ calls < MaxCalls
  /\ calls' = calls + 1
  /\ \E req \in AssignRequests :
       allocatorEnters(p, allocation(req),
                       [id |-> calls + 1, req |-> req, input |-> NoInput])

\* DELETE /api/tag-balances
removeMoneyFromTag(p) ==
  /\ pc[p] = "idle" /\ calls < MaxCalls
  /\ calls' = calls + 1
  /\ \E req \in RemoveRequests :
       allocatorEnters(p, allocation(req),
                       [id |-> calls + 1, req |-> req, input |-> NoInput])

\* A tagged variant calls the allocator after its posting has returned.
invokeAllocator(p) ==
  /\ pc[p] = "committed"
  /\ UNCHANGED calls
  /\ allocatorEnters(p, allocation(call[p].req), call[p])

\* assignMoneyToTag: getTagBalanceInAccount and the comparison with the
\* account balance read before.
assignCheck(p) ==
  /\ pc[p] = "assignCheck"
  /\ UNCHANGED calls
  /\ IF RLess(alloc[p].accountBalance,
              RAdd(tagBalances[rowKey(p)].balance, alloc[p].amount))
       THEN allocatorThrows(p, call[p], "ExceedsAccountBalance")
       ELSE /\ pc' = [pc EXCEPT ![p] = "assignFind"]
            /\ UNCHANGED <<ledger, exchangeRates, call, local, txn, result, tagVars, rateVars, balanceTA>>

\* assignMoneyToTag: prisma.tagBalance.findFirst for the existing row.
assignFind(p) ==
  /\ pc[p] = "assignFind"
  /\ pc' = [pc EXCEPT ![p] = "assignWrite"]
  /\ alloc' = [alloc EXCEPT ![p].existing = tagBalances[rowKey(p)].id]
  /\ UNCHANGED <<ledger, exchangeRates, calls, call, local, txn, result, tagBalances,
                 allocated, report, tagIds, rateVars, balanceTA>>

\* (Mutation of assignWrite: the balance is set to the amount, not raised by it.)
assignWriteOverwrites(p) ==
  /\ pc[p] = "assignWrite"
  /\ tagBalances' = [tagBalances EXCEPT ![rowKey(p)] =
                       [id |-> IF @.id = 0 THEN call[p].id ELSE @.id,
                        balance |-> alloc[p].amount]]
  /\ allocatorReturns(p)

\* assignMoneyToTag: increment of the row found, or creation of the row.  The
\* update fails when the row found is gone, the creation when the tag is gone
\* (tag_balances_tagId_fkey) or the key exists.
assignWrite(p) ==
  /\ pc[p] = "assignWrite"
  /\ IF alloc[p].existing # 0
       THEN IF tagBalances[rowKey(p)].id = alloc[p].existing
              THEN /\ tagBalances' = [tagBalances EXCEPT ![rowKey(p)].balance =
                                        RAdd(@, alloc[p].amount)]
                   /\ allocatorReturns(p)
              ELSE /\ UNCHANGED calls
                   /\ allocatorThrows(p, call[p], "RecordNotFound")
       ELSE IF alloc[p].tagId \notin tagIds
              THEN /\ UNCHANGED calls
                   /\ allocatorThrows(p, call[p], "ForeignKeyConstraint")
       ELSE IF tagBalances[rowKey(p)].id = 0
              THEN /\ tagBalances' = [tagBalances EXCEPT ![rowKey(p)] =
                                        [id |-> call[p].id, balance |-> alloc[p].amount]]
                   /\ allocatorReturns(p)
              ELSE /\ UNCHANGED calls
                   /\ allocatorThrows(p, call[p], "UniqueConstraint")

\* removeMoneyFromTag: deletion of the row when the amount equals the balance
\* read, else decrement; both fail when the row read is gone.
removeWrite(p) ==
  /\ pc[p] = "removeWrite"
  /\ IF tagBalances[rowKey(p)].id # alloc[p].existing
       THEN /\ UNCHANGED calls
            /\ allocatorThrows(p, call[p], "RecordNotFound")
       ELSE /\ tagBalances' =
                 IF alloc[p].amount = alloc[p].current
                   THEN [tagBalances EXCEPT ![rowKey(p)] = NoRow]
                   ELSE [tagBalances EXCEPT ![rowKey(p)].balance =
                           RSub(@, alloc[p].amount)]
            /\ allocatorReturns(p)

\* The balance of a TagBalance row, 0 when there is no row.
tagBalanceOf(rows, tagId, accountId) == rows[<<tagId, accountId>>].balance

\* Sum of the TagBalance rows of an account over the given tags.
RECURSIVE totalTagBalances(_, _, _)
totalTagBalances(rows, tags, accountId) ==
  IF tags = {} THEN Zero
  ELSE RAdd(tagBalanceOf(rows, CHOOSE t \in tags : TRUE, accountId),
            totalTagBalances(rows, tags \ {CHOOSE t \in tags : TRUE}, accountId))

validateRequest(tagId, accountId) ==
  [kind |-> "validateTagBalanceConstraints", tagId |-> tagId, accountId |-> accountId]

ValidateRequests ==
  {validateRequest("Vehicle", "Checking"),
   validateRequest("Vacation", "Checking"),
   validateRequest("Vehicle", "Ghost")}

\* What validateTagBalanceConstraints returns for an account balance read
\* before and the rows found now.
validation(accountBalance, rows, accountId) ==
  [isValid |-> ~RLess(accountBalance, totalTagBalances(rows, Tags, accountId)),
   totalTagBalances |-> totalTagBalances(rows, Tags, accountId),
   accountBalance |-> accountBalance,
   availableBalance |-> RSub(accountBalance, totalTagBalances(rows, Tags, accountId))]

\* GET /api/tag-balances/validate, first await: the account is looked up.
validateTagBalanceConstraints(p) ==
  /\ pc[p] = "idle" /\ calls < MaxCalls
  /\ calls' = calls + 1
  /\ \E req \in ValidateRequests :
       IF req.accountId \notin Accounts
         THEN /\ result' = [result EXCEPT ![p] =
                             Failed(req.kind, calls + 1, "AccountNotFound")]
              /\ UNCHANGED <<pc, call, report>>
         ELSE /\ pc' = [pc EXCEPT ![p] = "validateSum"]
              /\ call' = [call EXCEPT ![p] =
                            [id |-> calls + 1, req |-> req, input |-> NoInput]]
              /\ report' = [report EXCEPT ![p] =
                              [NoReport EXCEPT !.accountBalance = balance[req.accountId]]]
              /\ result' = [result EXCEPT ![p] = NoResult]
  /\ UNCHANGED <<ledger, exchangeRates, local, txn, tagBalances, alloc, allocated, tagIds, rateVars, balanceTA>>

\* validateTagBalanceConstraints, second await: the rows of the account are
\* found and summed, and the report is returned.
validateSum(p) ==
  /\ pc[p] = "validateSum"
  /\ report' = [report EXCEPT ![p] =
                  validation(@.accountBalance, tagBalances, call[p].req.accountId)]
  /\ pc' = [pc EXCEPT ![p] = "idle"]
  /\ call' = [call EXCEPT ![p] = NoCall]
  /\ result' = [result EXCEPT ![p] = Ok(call[p].req.kind, call[p].id)]
  /\ UNCHANGED <<ledger, exchangeRates, calls, local, txn, tagBalances, alloc, allocated, tagIds, rateVars, balanceTA>>

NextTag ==
  \E p \in Clients :
    \/ createTaggedTransferTransaction(p)
    \/ createTaggedExpenseTransaction(p)
    \/ createTaggedIncomeTransaction(p)
    \/ txCreateHeader(p)
    \/ txCreateEntries(p)
    \/ txUpdateBalances(p)
    \/ txCommitTagged(p)
    \/ storeFailure(p)
    \/ processStops(p)
    \/ invokeAllocator(p)
    \/ assignMoneyToTag(p)
    \/ removeMoneyFromTag(p)
    \/ assignCheck(p)
    \/ assignFind(p)
    \/ assignWrite(p)
    \/ removeWrite(p)
    \/ validateTagBalanceConstraints(p)
    \/ validateSum(p)

SpecTag == Init /\ [][NextTag]_vars

-----------------------------------------------------------------------------
(* Exchange Rate Resolver of src/src/lib/currency.ts, await by await.  An   *)
(* instant is <<calendar day, time of day>>; the date column of             *)
(* exchange_rates is a TIMESTAMP, so rows are keyed by instants.            *)

\* (Mutation of toUpperCase: the code is left as it was written.)
toUpperCaseNot(c) == c

\* String.prototype.toUpperCase on the currency codes in use.
toUpperCase(c) == IF c = "usd" THEN "USD" ELSE IF c = "lkr" THEN "LKR" ELSE c

\* date.toISOString().split("T")[0]: the calendar day of an instant.
dateStr(date) == date[1]

\* new Date(dateStr): midnight of a calendar day.
dateOfStr(day) == <<day, 0>>

\* What new Date() may return while the behaviour runs: instants of day 1.
Now == {<<1, 0>>, <<1, 1>>}

\* What the fallback endpoint quotes for one unit of base.
FallbackRates(base) ==
  [c \in Currencies \ {base} |-> IF base = "USD" THEN <<3, 1>> ELSE <<1, 3>>]

\* Answers of the primary endpoint: no answer, the rate table, or a body
\* without rates for the base (data[base] || {}).
PrimaryAnswers(base) ==
  {NoRateData,
   [ok |-> TRUE, base |-> base, rates |-> SourceRates(base)],
   [ok |-> TRUE, base |-> base, rates |-> [c \in {} |-> Zero]]}

FallbackAnswers(base) ==
  {NoRateData, [ok |-> TRUE, base |-> base, rates |-> FallbackRates(base)]}

getRateRequest(from, to, date) ==
  [kind |-> "getExchangeRate", fromCurrency |-> from, toCurrency |-> to, date |-> date]

GetRateRequests ==
  {getRateRequest("USD", "LKR", <<1, 1>>),
   getRateRequest("usd", "LKR", <<1, 0>>),
   getRateRequest("USD", "LKR", <<2, 1>>),
   getRateRequest("usd", "USD", <<1, 1>>)}

refreshRequest(base) == [kind |-> "updateExchangeRates", baseCurrency |-> base]

RefreshRequests == {refreshRequest("USD")}

exchangeRate(from, to, date, rate) ==
  [fromCurrency |-> from, toCurrency |-> to, date |-> date, rate |-> rate]

logged(io, ok) == [io |-> io, ok |-> ok]

\* The call of p ends with an error.
resolverThrows(p, error) ==
  /\ pc' = [pc EXCEPT ![p] = "idle"]
  /\ call' = [call EXCEPT ![p] = NoCall]
  /\ result' = [result EXCEPT ![p] = Failed(call[p].req.kind, call[p].id, error)]

\* getExchangeRate of p returns the rate it has resolved.
resolverReturns(p, r) ==
  /\ pc' = [pc EXCEPT ![p] = "idle"]
  /\ call' = [call EXCEPT ![p] = NoCall]
  /\ result' = [result EXCEPT ![p] = Ok(r.kind, r.id)]
  /\ rateHistory' =
       [rateHistory EXCEPT !.returned =
          @ \cup {exchangeRate(r.fromCurrency, r.toCurrency, dateStr(r.date), r.rate)}]

\* (Mutation of getRateEnters: the cache is not consulted.)
getRateEntersUncached(p, req, id) ==
  IF toUpperCase(req.fromCurrency) = toUpperCase(req.toCurrency)
    THEN /\ resolving' = [resolving EXCEPT ![p] =
                            [NoResolving EXCEPT !.request = req,
                                                !.fromCurrency = toUpperCase(req.fromCurrency),
                                                !.toCurrency = toUpperCase(req.toCurrency),
                                                !.rate = One]]
         /\ result' = [result EXCEPT ![p] = Ok(req.kind, id)]
         /\ UNCHANGED <<pc, call, rateHistory>>
  ELSE /\ resolving' = [resolving EXCEPT ![p] =
                          [NoResolving EXCEPT
                             !.request = req,
                             !.fromCurrency = toUpperCase(req.fromCurrency),
                             !.toCurrency = toUpperCase(req.toCurrency),
                             !.date = dateOfStr(dateStr(req.date)),
                             !.log = <<logged("findUnique", FALSE)>>]]
       /\ pc' = [pc EXCEPT ![p] = "fetchPrimary"]
       /\ call' = [call EXCEPT ![p] = [id |-> id, req |-> req, input |-> NoInput]]
       /\ result' = [result EXCEPT ![p] = NoResult]
       /\ UNCHANGED rateHistory

\* getExchangeRate up to its first await and through the cache lookup: 1 for
\* one and the same currency, the cached rate on a hit, else on to the fetch.
getRateEnters(p, req, id) ==
  IF toUpperCase(req.fromCurrency) = toUpperCase(req.toCurrency)
    THEN /\ resolving' = [resolving EXCEPT ![p] =
                            [NoResolving EXCEPT !.request = req,
                                                !.fromCurrency = toUpperCase(req.fromCurrency),
                                                !.toCurrency = toUpperCase(req.toCurrency),
                                                !.rate = One]]
         /\ result' = [result EXCEPT ![p] = Ok(req.kind, id)]
         /\ UNCHANGED <<pc, call, rateHistory>>
  ELSE IF cachedRate(exchangeRates, toUpperCase(req.fromCurrency),
                     toUpperCase(req.toCurrency), dateOfStr(dateStr(req.date))) # {}
    THEN /\ resolving' = [resolving EXCEPT ![p] =
                            [NoResolving EXCEPT
                               !.request = req,
                               !.fromCurrency = toUpperCase(req.fromCurrency),
                               !.toCurrency = toUpperCase(req.toCurrency),
                               !.date = dateOfStr(dateStr(req.date)),
                               !.rate = (CHOOSE r \in
                                           cachedRate(exchangeRates,
                                                      toUpperCase(req.fromCurrency),
                                                      toUpperCase(req.toCurrency),
                                                      dateOfStr(dateStr(req.date))) :
                                           TRUE).rate,
                               !.log = <<logged("findUnique", TRUE)>>]]
         /\ result' = [result EXCEPT ![p] = Ok(req.kind, id)]
         /\ rateHistory' =
              [rateHistory EXCEPT !.returned =
                 @ \cup {exchangeRate(resolving'[p].fromCurrency, resolving'[p].toCurrency,
                                      dateStr(req.date), resolving'[p].rate)}]
         /\ UNCHANGED <<pc, call>>
  ELSE /\ resolving' = [resolving EXCEPT ![p] =
                          [NoResolving EXCEPT
                             !.request = req,
                             !.fromCurrency = toUpperCase(req.fromCurrency),
                             !.toCurrency = toUpperCase(req.toCurrency),
                             !.date = dateOfStr(dateStr(req.date)),
                             !.log = <<logged("findUnique", FALSE)>>]]
       /\ pc' = [pc EXCEPT ![p] = "fetchPrimary"]
       /\ call' = [call EXCEPT ![p] = [id |-> id, req |-> req, input |-> NoInput]]
       /\ result' = [result EXCEPT ![p] = NoResult]
       /\ UNCHANGED rateHistory

\* A call of currencyService.getExchangeRate.
resolveRate(p) ==
  /\ pc[p] = "idle" /\ calls < MaxCalls
  /\ calls' = calls + 1
  /\ \E req \in GetRateRequests : getRateEnters(p, req, calls + 1)
  /\ UNCHANGED <<ledger, exchangeRates, local, txn, tagVars, balanceTA>>

\* A call of currencyService.updateExchangeRates: it starts with the fetch.
updateExchangeRates(p) ==
  /\ pc[p] = "idle" /\ calls < MaxCalls
  /\ calls' = calls + 1
  /\ \E req \in RefreshRequests :
       /\ resolving' = [resolving EXCEPT ![p] =
                          [NoResolving EXCEPT !.request = req,
                                              !.fromCurrency = toUpperCase(req.baseCurrency)]]
       /\ call' = [call EXCEPT ![p] = [id |-> calls + 1, req |-> req, input |-> NoInput]]
  /\ pc' = [pc EXCEPT ![p] = "fetchPrimary"]
  /\ result' = [result EXCEPT ![p] = NoResult]
  /\ UNCHANGED <<ledger, exchangeRates, local, txn, tagVars, balanceTA, rateHistory>>

\* (Mutation of fetched: a refresh whose fetch failed returns quietly.)
fetchedQuietly(p, rateData, log) ==
  IF call[p].req.kind = "getExchangeRate"
    THEN IF ~rateData.ok \/ resolving[p].toCurrency \notin DOMAIN rateData.rates
           THEN /\ resolverThrows(p, "RateUnavailable")
                /\ resolving' = [resolving EXCEPT ![p].rateData = rateData, ![p].log = log]
           ELSE /\ pc' = [pc EXCEPT ![p] = "createRate"]
                /\ resolving' = [resolving EXCEPT
                                   ![p].rateData = rateData, ![p].log = log,
                                   ![p].rate = rateData.rates[resolving[p].toCurrency]]
                /\ UNCHANGED <<call, result>>
    ELSE IF ~rateData.ok
           THEN /\ pc' = [pc EXCEPT ![p] = "idle"]
                /\ call' = [call EXCEPT ![p] = NoCall]
                /\ result' = [result EXCEPT ![p] = Ok(call[p].req.kind, call[p].id)]
                /\ resolving' = [resolving EXCEPT ![p].rateData = rateData, ![p].log = log]
           ELSE /\ pc' = [pc EXCEPT ![p] = "upsertRates"]
                /\ \E now \in Now :
                     resolving' = [resolving EXCEPT
                                     ![p].rateData = rateData, ![p].log = log,
                                     ![p].date = now]
                /\ UNCHANGED <<call, result>>

\* fetchExchangeRates has returned rateData to the call of p (the log is the
\* one up to and including the fetch).  getExchangeRate throws when the rate
\* is not in it and goes on to store the rate otherwise; updateExchangeRates
\* throws on null and goes on to its upserts, dated new Date(), otherwise.
fetched(p, rateData, log) ==
  IF call[p].req.kind = "getExchangeRate"
    THEN IF ~rateData.ok \/ resolving[p].toCurrency \notin DOMAIN rateData.rates
           THEN /\ resolverThrows(p, "RateUnavailable")
                /\ resolving' = [resolving EXCEPT ![p].rateData = rateData, ![p].log = log]
           ELSE /\ pc' = [pc EXCEPT ![p] = "createRate"]
                /\ resolving' = [resolving EXCEPT
                                   ![p].rateData = rateData, ![p].log = log,
                                   ![p].rate = rateData.rates[resolving[p].toCurrency]]
                /\ UNCHANGED <<call, result>>
    ELSE IF ~rateData.ok
           THEN /\ resolverThrows(p, "RateUnavailable")
                /\ resolving' = [resolving EXCEPT ![p].rateData = rateData, ![p].log = log]
           ELSE /\ pc' = [pc EXCEPT ![p] = "upsertRates"]
                /\ \E now \in Now :
                     resolving' = [resolving EXCEPT
                                     ![p].rateData = rateData, ![p].log = log,
                                     ![p].date = now]
                /\ UNCHANGED <<call, result>>

\* fetchExchangeRates, the request to the primary endpoint.
fetchPrimary(p) ==
  /\ pc[p] = "fetchPrimary"
  /\ \E answer \in PrimaryAnswers(resolving[p].fromCurrency) :
       IF answer.ok
         THEN fetched(p, answer, Append(resolving[p].log, logged("primary", TRUE)))
         ELSE /\ pc' = [pc EXCEPT ![p] = "fetchFallback"]
              /\ resolving' = [resolving EXCEPT
                                 ![p].log = Append(@, logged("primary", FALSE))]
              /\ UNCHANGED <<call, result>>
  /\ UNCHANGED <<ledger, exchangeRates, calls, local, txn, tagVars, balanceTA, rateHistory>>

\* fetchExchangeRates, the request to the fallback endpoint.
fetchFallback(p) ==
  /\ pc[p] = "fetchFallback"
  /\ \E answer \in FallbackAnswers(resolving[p].fromCurrency) :
       fetched(p, answer, Append(resolving[p].log, logged("fallback", answer.ok)))
  /\ UNCHANGED <<ledger, exchangeRates, calls, local, txn, tagVars, balanceTA, rateHistory>>

\* getExchangeRate: prisma.exchangeRate.create and the return of the rate.
\* The create fails on the unique index when the key is there already.
createRate(p) ==
  /\ pc[p] = "createRate"
  /\ IF cachedRate(exchangeRates, resolving[p].fromCurrency, resolving[p].toCurrency,
                   resolving[p].date) # {}
       THEN /\ resolverThrows(p, "UniqueConstraint")
            /\ resolving' = [resolving EXCEPT
                               ![p].log = Append(@, logged("create", FALSE))]
            /\ UNCHANGED <<exchangeRates, rateHistory>>
       ELSE /\ exchangeRates' =
                 exchangeRates \cup {exchangeRate(resolving[p].fromCurrency,
                                                  resolving[p].toCurrency,
                                                  resolving[p].date, resolving[p].rate)}
            /\ resolving' = [resolving EXCEPT
                               ![p].log = Append(@, logged("create", TRUE))]
            /\ resolverReturns(p, [kind |-> call[p].req.kind, id |-> call[p].id,
                                   fromCurrency |-> resolving[p].fromCurrency,
                                   toCurrency |-> resolving[p].toCurrency,
                                   date |-> resolving[p].date,
                                   rate |-> resolving[p].rate])
  /\ UNCHANGED <<ledger, calls, local, txn, tagVars, balanceTA>>

\* The rows after the upserts of a rate table under (base, target, date).
upserted(rows, base, rates, date) ==
  {r \in rows : ~(/\ r.fromCurrency = base
                  /\ r.toCurrency \in {toUpperCase(c) : c \in DOMAIN rates}
                  /\ r.date = date)}
    \cup {exchangeRate(base, toUpperCase(c), date, rates[c]) : c \in DOMAIN rates}

\* updateExchangeRates: the upserts of Promise.all, and the return.
upsertRates(p) ==
  /\ pc[p] = "upsertRates"
  /\ exchangeRates' = upserted(exchangeRates, resolving[p].fromCurrency,
                               resolving[p].rateData.rates, resolving[p].date)
  /\ resolving' = [resolving EXCEPT ![p].log = Append(@, logged("upsert", TRUE))]
  /\ pc' = [pc EXCEPT ![p] = "idle"]
  /\ call' = [call EXCEPT ![p] = NoCall]
  /\ result' = [result EXCEPT ![p] = Ok(call[p].req.kind, call[p].id)]
  /\ rateHistory' =
       [returned |-> {},
        refreshed |->
          {h \in rateHistory.refreshed :
             ~(/\ h.fromCurrency = resolving[p].fromCurrency
               /\ h.toCurrency \in
                    {toUpperCase(c) : c \in DOMAIN resolving[p].rateData.rates}
               /\ h.date = dateStr(resolving[p].date))}
            \cup {exchangeRate(resolving[p].fromCurrency, toUpperCase(c),
                               dateStr(resolving[p].date), resolving[p].rateData.rates[c]) :
                    c \in DOMAIN resolving[p].rateData.rates}]
  /\ UNCHANGED <<ledger, calls, local, txn, tagVars, balanceTA>>

\* The static list getSupportedCurrencies falls back to.
FallbackCurrencies ==
  <<"LKR", "USD", "EUR", "GBP", "JPY", "AUD", "CAD", "CHF", "CNY", "SEK", "NZD",
    "MXN", "SGD", "HKD", "NOK", "TRY", "ZAR", "BRL", "INR", "KRW", "THB">>

\* What the currency-list endpoint may do: the fetch rejects, the response is
\* not OK, its body cannot be read, or the body is an object keyed by code.
CurrencyListAnswers ==
  {[fetch |-> "rejected", body |-> "none", keys |-> <<>>],
   [fetch |-> "notOk", body |-> "none", keys |-> <<>>],
   [fetch |-> "ok", body |-> "unreadable", keys |-> <<>>],
   [fetch |-> "ok", body |-> "json", keys |-> <<"usd", "lkr">>],
   [fetch |-> "ok", body |-> "json", keys |-> <<>>]}

listRequest == [kind |-> "getSupportedCurrencies"]

\* Object.keys(data).map((currency) => currency.toUpperCase())
upperCased(keys) == [i \in 1..Len(keys) |-> toUpperCase(keys[i])]

\* (Mutation of listReturns: an error of the fetch reaches the caller.)
listReturnsOrThrows(p, list, log) ==
  /\ pc' = [pc EXCEPT ![p] = "idle"]
  /\ call' = [call EXCEPT ![p] = NoCall]
  /\ result' = [result EXCEPT ![p] =
                  IF log[Len(log)].ok THEN Ok(call[p].req.kind, call[p].id)
                  ELSE Failed(call[p].req.kind, call[p].id, "FetchFailed")]
  /\ resolving' = [resolving EXCEPT ![p].currencies = list, ![p].log = log]

\* getSupportedCurrencies returns a list.
listReturns(p, list, log) ==
  /\ pc' = [pc EXCEPT ![p] = "idle"]
  /\ call' = [call EXCEPT ![p] = NoCall]
  /\ result' = [result EXCEPT ![p] = Ok(call[p].req.kind, call[p].id)]
  /\ resolving' = [resolving EXCEPT ![p].currencies = list, ![p].log = log]

\* A call of currencyService.getSupportedCurrencies: it starts with the fetch.
getSupportedCurrencies(p) ==
  /\ pc[p] = "idle" /\ calls < MaxCalls
  /\ calls' = calls + 1
  /\ resolving' = [resolving EXCEPT ![p] = [NoResolving EXCEPT !.request = listRequest]]
  /\ call' = [call EXCEPT ![p] = [id |-> calls + 1, req |-> listRequest, input |-> NoInput]]
  /\ pc' = [pc EXCEPT ![p] = "fetchCurrencies"]
  /\ result' = [result EXCEPT ![p] = NoResult]
  /\ UNCHANGED <<ledger, exchangeRates, local, txn, tagVars, balanceTA, rateHistory>>

\* getSupportedCurrencies: the answer to the fetch.  A rejected fetch is
\* caught and a response that is not OK is skipped: both fall through to the
\* static list.
fetchCurrencies(p) ==
  /\ pc[p] = "fetchCurrencies"
  /\ \E answer \in CurrencyListAnswers :
       IF answer.fetch = "ok"
         THEN /\ pc' = [pc EXCEPT ![p] = "readCurrencies"]
              /\ resolving' = [resolving EXCEPT
                                 ![p].rateData = [ok |-> TRUE, answer |-> answer],
                                 ![p].log = Append(@, logged("fetch", TRUE))]
              /\ UNCHANGED <<call, result>>
         ELSE listReturns(p, FallbackCurrencies,
                          Append(resolving[p].log, logged("fetch", FALSE)))
  /\ UNCHANGED <<ledger, exchangeRates, calls, local, txn, tagVars, balanceTA, rateHistory>>

\* getSupportedCurrencies: response.json() and the return.  A body that
\* cannot be read throws inside the try and falls through to the static list.
readCurrencies(p) ==
  /\ pc[p] = "readCurrencies"
  /\ IF resolving[p].rateData.answer.body = "json"
       THEN listReturns(p, upperCased(resolving[p].rateData.answer.keys),
                        Append(resolving[p].log, logged("json", TRUE)))
       ELSE listReturns(p, FallbackCurrencies,
                        Append(resolving[p].log, logged("json", FALSE)))
  /\ UNCHANGED <<ledger, exchangeRates, calls, local, txn, tagVars, balanceTA, rateHistory>>

NextRate ==
  \E p \in Clients :
    \/ resolveRate(p)
    \/ updateExchangeRates(p)
    \/ fetchPrimary(p)
    \/ fetchFallback(p)
    \/ createRate(p)
    \/ upsertRates(p)
    \/ getSupportedCurrencies(p)
    \/ fetchCurrencies(p)
    \/ readCurrencies(p)

SpecRate == Init /\ [][NextRate]_vars

-----------------------------------------------------------------------------
(* The service as a whole: the tagged variants, the allocator, the rate     *)
(* resolver and the deletion of tags (src/unnamed/part_007, 839-850).       *)

deleteTagRequest(id) == [kind |-> "deleteTag", tagId |-> id]

DeleteTagRequests == {deleteTagRequest("Vehicle"), deleteTagRequest("Vacation")}

\* deleteTag: prisma.transaction.findFirst({ where: { tagId: id } }); the
\* call throws when a transaction uses the tag and goes on to the delete
\* otherwise.
deleteTag(p) ==
  /\ pc[p] = "idle" /\ calls < MaxCalls
  /\ calls' = calls + 1
  /\ \E req \in DeleteTagRequests :
       IF \E t \in transactions : t.tagId = req.tagId
         THEN /\ result' = [result EXCEPT ![p] = Failed(req.kind, calls + 1, "TagInUse")]
              /\ UNCHANGED <<pc, call>>
         ELSE /\ pc' = [pc EXCEPT ![p] = "deleteTagRow"]
              /\ call' = [call EXCEPT ![p] =
                            [id |-> calls + 1, req |-> req, input |-> NoInput]]
              /\ result' = [result EXCEPT ![p] = NoResult]
  /\ UNCHANGED <<ledger, exchangeRates, local, txn, tagVars, rateVars, balanceTA>>

\* A transaction still open has written a header that refers to the tag: its
\* key lock on the tag row holds the delete back until it ends.
tagLocked(id) == \E q \in Clients : \E h \in txn[q].headers : h.tagId = id

\* transactions_tagId_fkey is ON DELETE SET NULL.
tagSetNull(rows, id) == {[t EXCEPT !.tagId = IF @ = id THEN Null ELSE @] : t \in rows}

\* tag_balances_tagId_fkey is ON DELETE CASCADE.
tagCascade(rows, id) == [k \in DOMAIN rows |-> IF k[1] = id THEN NoRow ELSE rows[k]]

\* deleteTag: prisma.tag.delete, with the referential actions of the schema.
deleteTagRow(p) ==
  /\ pc[p] = "deleteTagRow"
  /\ ~tagLocked(call[p].req.tagId)
  /\ pc' = [pc EXCEPT ![p] = "idle"]
  /\ call' = [call EXCEPT ![p] = NoCall]
  /\ IF call[p].req.tagId \notin tagIds
       THEN /\ result' = [result EXCEPT ![p] =
                            Failed(call[p].req.kind, call[p].id, "RecordNotFound")]
            /\ UNCHANGED <<transactions, tagBalances, tagIds>>
       ELSE /\ result' = [result EXCEPT ![p] = Ok(call[p].req.kind, call[p].id)]
            /\ tagIds' = tagIds \ {call[p].req.tagId}
            /\ transactions' = tagSetNull(transactions, call[p].req.tagId)
            /\ tagBalances' = tagCascade(tagBalances, call[p].req.tagId)
  /\ UNCHANGED <<balance, transactionEntries, exchangeRates, calls, local, txn,
                 alloc, allocated, report, rateVars, balanceTA>>

NextService ==
  \E p \in Clients :
    \/ createTaggedTransferTransaction(p)
    \/ createTaggedExpenseTransaction(p)
    \/ createTaggedIncomeTransaction(p)
    \/ txCreateHeader(p)
    \/ txCreateEntries(p)
    \/ txUpdateBalances(p)
    \/ txCommitTagged(p)
    \/ storeFailure(p)
    \/ invokeAllocator(p)
    \/ assignMoneyToTag(p)
    \/ removeMoneyFromTag(p)
    \/ assignCheck(p)
    \/ assignFind(p)
    \/ assignWrite(p)
    \/ removeWrite(p)
    \/ validateTagBalanceConstraints(p)
    \/ validateSum(p)
    \/ resolveRate(p)
    \/ updateExchangeRates(p)
    \/ fetchPrimary(p)
    \/ fetchFallback(p)
    \/ createRate(p)
    \/ upsertRates(p)
    \/ getSupportedCurrencies(p)
    \/ fetchCurrencies(p)
    \/ readCurrencies(p)
    \/ processStops(p)
    \/ deleteTag(p)
    \/ deleteTagRow(p)

SpecService == Init /\ [][NextService]_vars

-----------------------------------------------------------------------------
(* The two executors side by side.  Every posting is handed to both, each   *)
(* on a store of its own that starts from the same accounts: balance,       *)
(* transactions and transactionEntries are the store of src/unnamed/part_007*)
(* and balanceTA is the Account table of src/src/lib/accounting.ts, each     *)
(* balance held as the number Number(account.balance) reads.  One client    *)
(* posts at a time, so each createTransaction runs from validation to       *)
(* commit in one step.                                                      *)

Fifth == <<1, 5>>
Tenth == <<1, 10>>
ThreeTenths == <<3, 10>>

PostingAccounts == {a \in Accounts : AccountCurrency[a] = "LKR"}
PostingAmounts == {One, Half, FiftySevenCents}

\* Entry sets of one currency: a debit and a credit of the same amount, a
\* debit split over two credits, and an unbalanced pair.
Postings ==
  {<<plainEntry(d, "DEBIT", x), plainEntry(c, "CREDIT", x)>> :
     <<d, c, x>> \in {t \in PostingAccounts \X PostingAccounts \X PostingAmounts :
                        t[1] # t[2]}}
  \cup {<<plainEntry("Food", "DEBIT", ThreeTenths),
          plainEntry("Checking", "CREDIT", Tenth),
          plainEntry("Savings", "CREDIT", Fifth)>>,
        <<plainEntry("Food", "DEBIT", Two),
          plainEntry("Checking", "CREDIT", One)>>}

\* newBalance of accounting.ts after one entry, in numbers.
newBalance(type, entryType, current, amount) ==
  IF entryType = "DEBIT"
    THEN IF type \in {"ASSET", "EXPENSE"} THEN plus(current, amount)
                                          ELSE minus(current, amount)
    ELSE IF type \in {"ASSET", "EXPENSE"} THEN minus(current, amount)
                                          ELSE plus(current, amount)

\* The loop of tx.account.findUnique / tx.account.update({ balance }).
RECURSIVE updateAll(_, _, _)
updateAll(entries, i, bal) ==
  IF i > Len(entries) THEN bal
  ELSE updateAll(entries, i + 1,
         [bal EXCEPT ![entries[i].accountId] =
            newBalance(AccountType[entries[i].accountId], entries[i].entryType,
                       @, toNumber(entries[i].amount))])

\* createTransaction of part_007 on its store.
postedPlain(p, id, input, ok) ==
  IF ok
    THEN /\ transactions' = transactions \cup {headerRow(id, input)}
         /\ transactionEntries' = transactionEntries \cup entryRows(id, input.entries)
         /\ balance' = [a \in Accounts |->
                          RAdd(balance[a],
                               incrementAll(input.entries, 1,
                                            EmptyTxn.increments)[a])]
         /\ result' = [result EXCEPT ![p] = Ok("createTransaction", id)]
    ELSE /\ UNCHANGED ledger
         /\ result' = [result EXCEPT ![p] =
                         Failed("createTransaction", id, "UnbalancedEntry")]

\* createTransaction of accounting.ts on its store.
postedTA(input, ok) ==
  balanceTA' = IF ok THEN updateAll(input.entries, 1, balanceTA) ELSE balanceTA

createTransactionBoth(p) ==
  /\ pc[p] = "idle" /\ calls < MaxCalls
  /\ \E entries \in Postings :
       /\ postedPlain(p, calls + 1, transactionInput("TRANSFER", One, entries),
                      validateDoubleEntry(entries, exchangeRates,
                                          [primary |-> TRUE, fallback |-> TRUE]).ok)
       /\ postedTA(transactionInput("TRANSFER", One, entries),
                   validateDoubleEntryTA(entries))
  /\ calls' = calls + 1
  /\ UNCHANGED <<exchangeRates, pc, call, local, txn, tagVars, rateVars>>

NextBoth == \E p \in Clients : createTransactionBoth(p)

SpecBoth == Init /\ [][NextBoth]_vars

-----------------------------------------------------------------------------
(* Tagged transfers on their own, within one currency and across two: the   *)
(* posting of src/unnamed/part_007 (927-950 through 480-558) followed by    *)
(* assignMoneyToTag on the destination account.                             *)

TaggedTransfers ==
  TaggedTransferRequests
    \cup {taggedTransferRequest("Vehicle", "Dollar", "Savings", One),
          taggedTransferRequest("Vacation", "Checking", "Dollar", Two)}

createTaggedTransferBetween(p) ==
  /\ pc[p] = "idle" /\ calls < MaxCalls
  /\ \E req \in TaggedTransfers, api \in ApiOutcomes :
       transferComposed(p, req,
                        withTag(composeTransfer(req, exchangeRates, api), req.tagId), api)

NextTransfer ==
  \E p \in Clients :
    \/ createTaggedTransferBetween(p)
    \/ txCreateHeader(p)
    \/ txCreateEntries(p)
    \/ txUpdateBalances(p)
    \/ txCommitTagged(p)
    \/ storeFailure(p)
    \/ processStops(p)
    \/ invokeAllocator(p)
    \/ assignCheck(p)
    \/ assignFind(p)
    \/ assignWrite(p)

SpecTransfer == Init /\ [][NextTransfer]_vars

-----------------------------------------------------------------------------
(* The composer of transfers and the validator on their own: a transfer     *)
(* between accounts of two currencies is composed (part_007:480-558) and    *)
(* the entries are handed to validateDoubleEntry (part_007:306-373).  The   *)
(* client keeps the composed input and the verdict.                         *)

Third == <<1, 3>>

CrossCurrencyTransfers ==
  {transferRequest(t[1][1], t[1][2], t[2], t[3]) :
     t \in {<<"Dollar", "Savings">>, <<"Checking", "Dollar">>}
            \X {One, FiftySevenCents}
            \X {Undefined, Half, Third, Three}}

\* The verdict of the validator on a composed input.
verdictOn(p, req, input, v) ==
  /\ call' = [call EXCEPT ![p] = [id |-> calls + 1, req |-> req, input |-> input]]
  /\ local' = [local EXCEPT ![p] =
                 [validated |-> TRUE, verdict |-> v.ok, caught |-> v.caught]]
  /\ result' = [result EXCEPT ![p] =
                  IF v.ok THEN Ok(req.kind, calls + 1)
                          ELSE Failed(req.kind, calls + 1, "UnbalancedEntry")]
  /\ exchangeRates' = v.rows

composedAndValidated(p, req, c, api) ==
  IF c.ok
    THEN verdictOn(p, req, c.input, validateDoubleEntry(c.input.entries, c.rows, api))
    ELSE /\ call' = [call EXCEPT ![p] = [id |-> calls + 1, req |-> req, input |-> NoInput]]
         /\ local' = [local EXCEPT ![p] = NoLocal]
         /\ result' = [result EXCEPT ![p] = Failed(req.kind, calls + 1, c.error)]
         /\ exchangeRates' = c.rows

validateComposedTransfer(p) ==
  /\ pc[p] = "idle" /\ calls < MaxCalls
  /\ calls' = calls + 1
  /\ \E req \in CrossCurrencyTransfers, api \in ApiOutcomes :
       composedAndValidated(p, req, composeTransfer(req, exchangeRates, api), api)
  /\ UNCHANGED <<ledger, pc, txn, tagVars, rateVars, balanceTA>>

NextCompose == \E p \in Clients : validateComposedTransfer(p)

SpecCompose == Init /\ [][NextCompose]_vars

-----------------------------------------------------------------------------
(* Reading the committed ledger.                                           *)

entriesOf(id) == {e \in transactionEntries : e.transactionId = id}

entryAmount(e) == IF e.entryType = "DEBIT" THEN e.debitAmount ELSE e.creditAmount

\* The value of a committed entry in the valuation currency: its amount when
\* the account is in that currency, the declared original amount when the
\* entry declares a rate from that currency, else the amount at the quoted rate.
valuated(e, base) ==
  IF AccountCurrency[e.accountId] = base THEN entryAmount(e)
  ELSE IF Truthy(e.exchangeRate) /\ e.originalCurrency = base
    THEN (IF Truthy(e.originalAmount) THEN e.originalAmount ELSE entryAmount(e))
  ELSE RMul(entryAmount(e), SourceRates(AccountCurrency[e.accountId])[base])

RECURSIVE valuatedTotal(_, _, _)
valuatedRest(e, es, kind, base) ==
  RAdd(IF e.entryType = kind THEN valuated(e, base) ELSE Zero,
       valuatedTotal(es \ {e}, kind, base))

valuatedTotal(es, kind, base) ==
  IF es = {} THEN Zero
  ELSE valuatedRest(CHOOSE e \in es : TRUE, es, kind, base)

\* The valuation currency of a committed transaction: that of its first entry.
valuationCurrency(es) ==
  AccountCurrency[(CHOOSE e \in es : e.position = 1).accountId]

balancedIn(es, base) ==
  RLess(RAbs(RSub(valuatedTotal(es, "DEBIT", base), valuatedTotal(es, "CREDIT", base))),
        Tolerance)

\* C1: in every reachable state, every committed transaction has valuated
\* DEBIT and CREDIT totals that differ by less than 0.01 (raw amounts when its
\* accounts share one currency, amounts valuated in the currency of the first
\* entry's account otherwise).
C1_ValuatedTotalsBalance ==
  \A t \in transactions :
    entriesOf(t.id) # {} => balancedIn(entriesOf(t.id), valuationCurrency(entriesOf(t.id)))

\* debitAmount - creditAmount over the committed entries of an account.
RECURSIVE postedChange(_)
postedRest(e, es) == RAdd(RSub(e.debitAmount, e.creditAmount), postedChange(es \ {e}))

postedChange(es) == IF es = {} THEN Zero ELSE postedRest(CHOOSE e \in es : TRUE, es)

entriesOn(a) == {e \in transactionEntries : e.accountId = a}

\* Nothing of the posting that ran (or runs) under this id is in the ledger.
absentFromLedger(id) ==
  /\ \A t \in transactions : t.id # id
  /\ entriesOf(id) = {}

\* The errors a posting can meet inside its transaction.
errorsInTransaction(input) ==
  {"StoreFailure"}
    \cup (IF missingAccount(input.entries) THEN {"ForeignKeyConstraint"} ELSE {})
    \cup (IF duplicateKey(input.entries) THEN {"UniqueConstraint"} ELSE {})

C2_Ledger ==
  /\ \A p \in Clients : pc[p] \in InTransaction => absentFromLedger(call[p].id)
  /\ \A p \in Clients : result[p].status = "error" => absentFromLedger(result[p].id)
  /\ \A t \in transactions : entriesOf(t.id) # {}
  /\ \A e \in transactionEntries : \E t \in transactions : t.id = e.transactionId
  /\ \A a \in Accounts :
       balance[a] = RAdd(InitialBalance[a], postedChange(entriesOn(a)))

C2_Step ==
  \A p \in Clients :
    (pc[p] \in InTransaction /\ pc'[p] = "idle") =>
      \/ /\ result'[p].status = "error"
         /\ result'[p].id = call[p].id
         /\ result'[p].error \in errorsInTransaction(call[p].input)
         /\ UNCHANGED ledger
      \/ /\ result'[p] = Ok(call[p].req.kind, call[p].id)
         /\ transactions' = transactions \cup {headerRow(call[p].id, call[p].input)}
         /\ transactionEntries' =
              transactionEntries \cup entryRows(call[p].id, call[p].input.entries)

\* C2: createTransaction is all-or-nothing.  A posting that fails inside its
\* transaction leaves no header, no entry and no balance change and returns
\* the error that stopped it; a posting that commits adds its header and all
\* its entries in one step; while a posting runs nothing of it is in the
\* ledger, and every balance equals its initial value plus the committed
\* entries on the account.
C2_AllOrNothing == [](C2_Ledger) /\ [][C2_Step]_vars

\* A posting failed on a missing account after its header had been written
\* inside the transaction, while another posting is committed.
C2_Witness ==
  \E p \in Clients :
    /\ result[p].status = "error" /\ result[p].error = "ForeignKeyConstraint"
    /\ transactions # {}

-----------------------------------------------------------------------------
(* Balance effect of postings.                                              *)

\* The normal-balance rule: a debit raises ASSET and EXPENSE accounts and
\* lowers LIABILITY and INCOME accounts; a credit does the opposite.
normalChange(type, entryType, amount) ==
  IF (entryType = "DEBIT") = (type \in {"ASSET", "EXPENSE"}) THEN amount ELSE RNeg(amount)

\* Sum of the normal-balance changes of the committed entries on an account.
RECURSIVE normalPosted(_, _)
normalRest(e, es, type) ==
  RAdd(normalChange(type, e.entryType, entryAmount(e)), normalPosted(es \ {e}, type))

normalPosted(es, type) ==
  IF es = {} THEN Zero ELSE normalRest(CHOOSE e \in es : TRUE, es, type)

\* Sum of the normal-balance changes that the entries of one input make to
\* account a.
RECURSIVE normalOfInput(_, _, _)
normalOfInput(entries, i, a) ==
  IF i > Len(entries) THEN Zero
  ELSE RAdd(IF entries[i].accountId = a
              THEN normalChange(AccountType[a], entries[i].entryType, entries[i].amount)
              ELSE Zero,
            normalOfInput(entries, i + 1, a))

quiescent == \A p \in Clients : pc[p] = "idle"

\* p commits its posting in this step.
commits(p) == pc[p] = "updated" /\ pc'[p] = "idle" /\ result'[p].status = "ok"

\* C3: postings that run concurrently on the same account end with the
\* balance at its start value plus the sum of the deltas of the committed
\* entries, whatever the interleaving.
C3_NoLostUpdate ==
  quiescent =>
    \A a \in Accounts :
      balance[a] = RAdd(InitialBalance[a], normalPosted(entriesOn(a), AccountType[a]))

C4_Step ==
  \A p \in Clients :
    commits(p) =>
      \A a \in Accounts :
        balance'[a] = RAdd(balance[a], normalOfInput(call[p].input.entries, 1, a))

\* C4: a committed posting changes every account by the normal-balance rule:
\* DEBIT adds to ASSET and EXPENSE and subtracts from LIABILITY and INCOME,
\* CREDIT is the mirror image.
C4_NormalBalanceRule == [][C4_Step]_vars

\* C5: every stored entry has exactly one of debitAmount and creditAmount
\* nonzero: a DEBIT entry has debitAmount > 0 and creditAmount = 0, a CREDIT
\* entry the reverse.
C5_OneSidedEntries ==
  \A e \in transactionEntries :
    IF e.entryType = "DEBIT"
      THEN RLess(Zero, e.debitAmount) /\ e.creditAmount = Zero
      ELSE RLess(Zero, e.creditAmount) /\ e.debitAmount = Zero

C6_Rejected ==
  \A p \in Clients :
    /\ (local[p].validated /\ ~local[p].verdict) =>
         /\ pc[p] = "idle"
         /\ txn[p] = EmptyTxn
         /\ result[p].status = "error"
         /\ result[p].error = "UnbalancedEntry"
         /\ absentFromLedger(result[p].id)
    /\ pc[p] \in InTransaction => (local[p].validated /\ local[p].verdict)

C6_Step ==
  \A p \in Clients :
    (pc[p] = "idle" /\ local'[p].validated /\ ~local'[p].verdict /\ calls' = calls + 1
       /\ result'[p].id = calls + 1) =>
      /\ result'[p].error = "UnbalancedEntry"
      /\ pc'[p] = "idle"
      /\ UNCHANGED <<ledger, txn>>

\* C6: when the validator finds the entry set unbalanced, createTransaction
\* is rejected with the unbalanced-entry error before the executor runs: no
\* transaction opens, no header or entry is created and no balance changes.
C6_UnbalancedRejected == [](C6_Rejected) /\ [][C6_Step]_vars

\* A posting was rejected as unbalanced.
C6_Witness ==
  \E p \in Clients :
    /\ local[p].validated /\ ~local[p].verdict
    /\ result[p].error = "UnbalancedEntry"

\* C7: when rate resolution fails while the validator valuates an entry, the
\* posting is rejected with RateUnavailable and nothing is written; the
\* validation never goes on with a substituted value.
C7_RateFailureRejects ==
  \A p \in Clients :
    local[p].caught =>
      /\ pc[p] = "idle"
      /\ result[p].status = "error"
      /\ result[p].error = "RateUnavailable"

\* The plain composer requests: Income, Expense, and Transfer between two
\* existing accounts of one currency.
plainRequest(req) ==
  \/ req.kind \in {"createIncomeTransaction", "createExpenseTransaction"}
  \/ /\ req.kind = "createTransferTransaction"
     /\ findAccount(req.fromAccountId).found /\ findAccount(req.toAccountId).found
     /\ findAccount(req.fromAccountId).currency = findAccount(req.toAccountId).currency

debitAccountOf(req) ==
  CASE req.kind = "createIncomeTransaction" -> req.assetAccountId
    [] req.kind = "createExpenseTransaction" -> req.expenseAccountId
    [] req.kind = "createTransferTransaction" -> req.toAccountId

creditAccountOf(req) ==
  CASE req.kind = "createIncomeTransaction" -> req.incomeAccountId
    [] req.kind = "createExpenseTransaction" -> req.assetAccountId
    [] req.kind = "createTransferTransaction" -> req.fromAccountId

\* What an entry row says: account, kind and the two amount columns.
posting(e) == <<e.accountId, e.entryType, e.debitAmount, e.creditAmount>>

C8_Step ==
  \A p \in Clients :
    (commits(p) /\ plainRequest(call[p].req)) =>
      /\ Cardinality(transactions' \ transactions) = 1
      /\ \A t \in transactions' \ transactions : t.id = call[p].id
      /\ Cardinality(transactionEntries' \ transactionEntries) = 2
      /\ \A e \in transactionEntries' \ transactionEntries : e.transactionId = call[p].id
      /\ {posting(e) : e \in transactionEntries' \ transactionEntries} =
           {<<debitAccountOf(call[p].req), "DEBIT", call[p].req.amount, Zero>>,
            <<creditAccountOf(call[p].req), "CREDIT", Zero, call[p].req.amount>>}

\* C8: a plain Income, Expense or same-currency Transfer request that commits
\* adds exactly one transaction with exactly two entries, one DEBIT and one
\* CREDIT of the request amount, on the accounts the request names.
C8_TwoEntries == [][C8_Step]_vars

\* An Income and a same-currency Transfer have both committed.
C8_Witness ==
  \E p, q \in Clients :
    /\ result[p] = Ok("createIncomeTransaction", result[p].id)
    /\ result[q] = Ok("createTransferTransaction", result[q].id)
    /\ Cardinality(transactions) = 2
    /\ Cardinality(transactionEntries) = 4

C9_Step ==
  \A p \in Clients :
    (/\ commits(p)
     /\ call[p].req.kind = "createIncomeTransaction"
     /\ findAccount(call[p].req.assetAccountId).type = "ASSET"
     /\ findAccount(call[p].req.incomeAccountId).type = "INCOME") =>
      /\ balance'[call[p].req.assetAccountId] =
           RAdd(balance[call[p].req.assetAccountId], call[p].req.amount)
      /\ balance'[call[p].req.incomeAccountId] =
           RAdd(balance[call[p].req.incomeAccountId], call[p].req.amount)

\* C9: an Income posting of amount A on an ASSET account and an INCOME
\* account raises the asset balance by A and raises the income balance by A.
C9_IncomeRaisesBoth == [][C9_Step]_vars

C10_Step ==
  \A p \in Clients :
    (/\ commits(p)
     /\ call[p].req.kind = "createExpenseTransaction"
     /\ findAccount(call[p].req.assetAccountId).type = "ASSET"
     /\ findAccount(call[p].req.expenseAccountId).type = "EXPENSE") =>
      /\ balance'[call[p].req.assetAccountId] =
           RSub(balance[call[p].req.assetAccountId], call[p].req.amount)
      /\ balance'[call[p].req.expenseAccountId] =
           RAdd(balance[call[p].req.expenseAccountId], call[p].req.amount)

\* C10: an Expense posting of amount A on an ASSET account and an EXPENSE
\* account lowers the asset balance by A and raises the expense balance by A
\* when it commits.
C10_ExpenseMovesAmount == [][C10_Step]_vars

-----------------------------------------------------------------------------
(* Transfers.                                                               *)

\* p commits a transfer between two existing accounts.
commitsTransfer(p) ==
  /\ commits(p)
  /\ call[p].req.kind = "createTransferTransaction"
  /\ findAccount(call[p].req.fromAccountId).found
  /\ findAccount(call[p].req.toAccountId).found

sameCurrency(req) ==
  findAccount(req.fromAccountId).currency = findAccount(req.toAccountId).currency

C11_Step ==
  \A p \in Clients :
    (/\ commitsTransfer(p)
     /\ sameCurrency(call[p].req)
     /\ call[p].req.fromAccountId # call[p].req.toAccountId
     /\ findAccount(call[p].req.fromAccountId).type = "ASSET"
     /\ findAccount(call[p].req.toAccountId).type = "ASSET") =>
      /\ balance'[call[p].req.fromAccountId] =
           RSub(balance[call[p].req.fromAccountId], call[p].req.amount)
      /\ balance'[call[p].req.toAccountId] =
           RAdd(balance[call[p].req.toAccountId], call[p].req.amount)
      /\ RAdd(balance'[call[p].req.fromAccountId], balance'[call[p].req.toAccountId]) =
           RAdd(balance[call[p].req.fromAccountId], balance[call[p].req.toAccountId])

\* C11: a same-currency transfer of amount A between two ASSET accounts
\* lowers the source balance by A and raises the destination balance by A
\* when it commits, so the sum of the two balances stays the same.
C11_TransferMovesAmount == [][C11_Step]_vars

\* A transfer of 1 from Checking to Savings has committed.
C11_Witness ==
  \E p \in Clients :
    /\ result[p] = Ok("createTransferTransaction", result[p].id)
    /\ balance["Savings"] = One
    /\ balance["Checking"] = RSub(InitialBalance["Checking"], One)

\* The rate of a cross-currency transfer: the custom rate when the request
\* carries one, else the rate resolved (and cached) for the day.
transferRate(req, rows) ==
  IF Truthy(req.customExchangeRate) THEN req.customExchangeRate
  ELSE (CHOOSE r \in cachedRate(rows, findAccount(req.fromAccountId).currency,
                                findAccount(req.toAccountId).currency, Today) : TRUE).rate

\* What an entry row says about its conversion.
converted(e) ==
  <<e.accountId, e.entryType, entryAmount(e), e.originalAmount, e.originalCurrency,
    e.exchangeRate>>

\* The two legs of a transfer of req.amount at rate r.
legsAt(req, r) ==
  {<<req.toAccountId, "DEBIT", RMul(req.amount, r), req.amount,
     findAccount(req.fromAccountId).currency, r>>,
   <<req.fromAccountId, "CREDIT", req.amount, RMul(req.amount, r),
     findAccount(req.toAccountId).currency, RInv(r)>>}

C12_Step ==
  \A p \in Clients :
    (commitsTransfer(p) /\ ~sameCurrency(call[p].req)) =>
      /\ \A e \in transactionEntries' \ transactionEntries : e.transactionId = call[p].id
      /\ Cardinality(transactionEntries' \ transactionEntries) = 2
      /\ {converted(e) : e \in transactionEntries' \ transactionEntries} =
           legsAt(call[p].req, transferRate(call[p].req, exchangeRates))

-----------------------------------------------------------------------------
(* Tagged variants and the allocator.                                       *)

AllocatorStages == {"assignCheck", "assignFind", "assignWrite", "removeWrite"}

tagged(p) == call[p].req.kind \in TaggedKinds

\* p's call enters the allocator in this step.
entersAllocator(p) == alloc'[p].calledFor # alloc[p].calledFor

\* The allocator call a tagged variant has to make.
dueAllocation(req) ==
  IF req.kind = "createTaggedIncomeTransaction"
    THEN <<"assign", req.tagId, req.assetAccountId, req.amount>>
  ELSE IF req.kind = "createTaggedTransferTransaction"
    THEN <<"assign", req.tagId, req.toAccountId, req.amount>>
  ELSE <<"remove", req.tagId, req.assetAccountId, req.amount>>

\* The errors of the physical posting.
PostingErrors == {"UnbalancedEntry", "ForeignKeyConstraint", "StoreFailure"}

C13_Order ==
  \A p \in Clients :
    /\ (tagged(p) /\ pc[p] \in InTransaction \cup {"committed"}) =>
         alloc[p].calledFor # call[p].id
    /\ (tagged(p) /\ pc[p] \in AllocatorStages) =>
         /\ alloc[p].calledFor = call[p].id
         /\ \E t \in transactions : t.id = call[p].id
         /\ <<alloc[p].op, alloc[p].tagId, alloc[p].accountId, alloc[p].amount>> =
              dueAllocation(call[p].req)
    /\ (result[p].status = "ok" /\ result[p].kind \in TaggedKinds) =>
         alloc[p].calledFor = result[p].id
    /\ (/\ result[p].kind \in TaggedKinds
        /\ result[p].error \in PostingErrors) =>
         alloc[p].calledFor # result[p].id

C13_Step ==
  \A p \in Clients :
    /\ (tagged(p) /\ entersAllocator(p)) =>
         /\ pc[p] = "committed"
         /\ alloc'[p].calledFor = call[p].id
         /\ \E t \in transactions : t.id = call[p].id
    /\ (/\ result'[p] # result[p]
        /\ result'[p].kind \in TaggedKinds
        /\ result'[p].error \in PostingErrors) => UNCHANGED tagBalances
    /\ (tagBalances' # tagBalances /\ pc'[p] # pc[p]) =>
         (pc[p] \in {"assignWrite", "removeWrite"} /\ alloc[p].calledFor = call[p].id)
    /\ (tagged(p) /\ pc[p] = "committed" /\ pc'[p] # "committed") =>
         (entersAllocator(p) \/ result'[p].status = "stopped")

\* C13: in every tagged variant the allocator is called exactly once and only
\* after the physical posting has committed, with assign(tag, asset, amt) for
\* TaggedIncome, assign(tag, destination, amt) for TaggedTransfer and
\* remove(tag, asset, amt) for TaggedExpense; when the posting fails the
\* allocator is never called and no TagBalance changes.
C13_AllocatorAfterCommit == [](C13_Order) /\ [][C13_Step]_vars

\* A tagged transfer has finished, and a tagged income failed in its posting.
C13_Witness ==
  \E p, q \in Clients :
    /\ result[p] = Ok("createTaggedTransferTransaction", result[p].id)
    /\ result[q].kind = "createTaggedIncomeTransaction"
    /\ result[q].error = "ForeignKeyConstraint"

C14_Step ==
  \A p \in Clients :
    (/\ call[p].req.kind = "createTaggedTransferTransaction"
     /\ findAccount(call[p].req.fromAccountId).found
     /\ findAccount(call[p].req.toAccountId).found
     /\ sameCurrency(call[p].req)
     /\ findAccount(call[p].req.fromAccountId).type = "ASSET"
     /\ findAccount(call[p].req.toAccountId).type = "ASSET") =>
      /\ (pc[p] = "updated" /\ pc'[p] = "committed") =>
           /\ balance'[call[p].req.fromAccountId] =
                RSub(balance[call[p].req.fromAccountId], call[p].req.amount)
           /\ balance'[call[p].req.toAccountId] =
                RAdd(balance[call[p].req.toAccountId], call[p].req.amount)
      /\ (pc'[p] = "idle" /\ result'[p].status = "ok") =>
           /\ tagBalances'[<<call[p].req.tagId, call[p].req.toAccountId>>].id # 0
           /\ tagBalances'[<<call[p].req.tagId, call[p].req.toAccountId>>].balance =
                RAdd(tagBalances[<<call[p].req.tagId, call[p].req.toAccountId>>].balance,
                     call[p].req.amount)
           /\ UNCHANGED balance

\* C14: a tagged transfer of A between same-currency ASSET accounts lowers the
\* source balance by A and raises the destination balance by A when its
\* posting commits, and raises TagBalance(tag, destination) by A when it
\* finishes successfully, creating the row if there was none.
C14_TaggedTransfer == [][C14_Step]_vars

\* Two tagged transfers of 1 have finished: the first created the row of
\* Vehicle in Savings, the second raised it.
C14_Witness ==
  /\ \A p \in Clients : result[p] = Ok("createTaggedTransferTransaction", result[p].id)
  /\ tagBalances[<<"Vehicle", "Savings">>].balance = Two
  /\ balance["Savings"] = Two

C15_Step ==
  \A p \in Clients :
    (/\ call[p].req.kind = "createTaggedExpenseTransaction"
     /\ pc'[p] = "idle" /\ result'[p].status = "ok") =>
      IF tagBalances[<<call[p].req.tagId, call[p].req.assetAccountId>>].balance =
           call[p].req.amount
        THEN tagBalances'[<<call[p].req.tagId, call[p].req.assetAccountId>>] = NoRow
        ELSE /\ tagBalances'[<<call[p].req.tagId, call[p].req.assetAccountId>>].id # 0
             /\ tagBalances'[<<call[p].req.tagId, call[p].req.assetAccountId>>].balance =
                  RSub(tagBalances[<<call[p].req.tagId, call[p].req.assetAccountId>>].balance,
                       call[p].req.amount)

\* C15: a tagged expense of A that finishes successfully reduces
\* TagBalance(tag, asset) by exactly A; the row is removed when the reduction
\* brings it to zero.
C15_TaggedExpenseReduces == [][C15_Step]_vars

AllocatorErrors ==
  {"AccountNotFound", "TagNotFound", "ExceedsAccountBalance", "TagBalanceNotFound",
   "InsufficientTagBalance", "RecordNotFound", "UniqueConstraint"}

C16_Step ==
  \A p \in Clients :
    (/\ tagged(p)
     /\ pc[p] \in AllocatorStages \cup {"committed"}
     /\ pc'[p] = "idle"
     /\ result'[p].status \in {"error", "stopped"}) =>
      /\ UNCHANGED <<ledger, tagBalances>>
      /\ result'[p].status = "error" => result'[p].error \in AllocatorErrors
      /\ headerRow(call[p].id, call[p].input) \in transactions
      /\ entriesOf(call[p].id) = entryRows(call[p].id, call[p].input.entries)
      /\ balancedIn(entriesOf(call[p].id), valuationCurrency(entriesOf(call[p].id)))

\* C16: when the allocator step of a tagged variant fails, or execution stops
\* between the posting and the allocator, the committed transaction, its
\* entries and the account balances stay as committed and no TagBalance
\* changes: the ledger stays balanced and only the tag balance is stale.
C16_PostingStays == [][C16_Step]_vars

\* A tagged expense on a tag without a row has failed in the allocator, and
\* another tagged call stopped between its two steps; both postings are
\* committed.
C16_Witness ==
  \E p, q \in Clients :
    /\ result[p].kind = "createTaggedExpenseTransaction"
    /\ result[p].error = "TagBalanceNotFound"
    /\ result[q].status = "stopped"
    /\ \E t \in transactions : t.id = result[p].id
    /\ \E t \in transactions : t.id = result[q].id

\* The assign of p would take the tag above the balance of its account.
exceedsNow(p) ==
  RLess(balance[alloc[p].accountId],
        RAdd(tagBalanceOf(tagBalances, alloc[p].tagId, alloc[p].accountId),
             alloc[p].amount))

C17_Step ==
  \A p \in Clients :
    /\ (pc[p] = "assignCheck" /\ pc'[p] # pc[p]) =>
         /\ exceedsNow(p) <=>
              (pc'[p] = "idle" /\ result'[p].error = "ExceedsAccountBalance")
         /\ exceedsNow(p) => UNCHANGED tagBalances
    /\ (pc[p] \in {"assignFind", "assignWrite"} /\ pc'[p] = "idle") =>
         /\ result'[p].status = "ok"
         /\ tagBalanceOf(tagBalances', alloc[p].tagId, alloc[p].accountId) =
              RAdd(tagBalanceOf(tagBalances, alloc[p].tagId, alloc[p].accountId),
                   alloc[p].amount)

\* C17: assignMoneyToTag with amount > 0 is rejected with
\* ExceedsAccountBalance, every TagBalance unchanged, exactly when the tag's
\* current balance in the account plus the amount is greater than the
\* account's current balance; otherwise it succeeds and TagBalance(tag,
\* account) rises by the amount.
C17_AssignDecision == [][C17_Step]_vars

\* C18: in every reachable state each TagBalance row's balance is at most the
\* current balance of the account that holds it.
C18_RowWithinAccount ==
  \A k \in DOMAIN tagBalances :
    tagBalances[k].id # 0 => ~RLess(balance[k[2]], tagBalances[k].balance)

\* C19: in every reachable state the TagBalance rows of an account sum to at
\* most the account's balance.
C19_TagsWithinAccount ==
  \A a \in Accounts : ~RLess(balance[a], totalTagBalances(tagBalances, Tags, a))

\* C20: in every reachable state, also under interleaved assigns and removes
\* on one (tag, account), every TagBalance row has a balance >= 0.
C20_NonNegative ==
  \A k \in DOMAIN tagBalances : ~RLess(tagBalances[k].balance, Zero)

-----------------------------------------------------------------------------
(* The allocator on its own: history, errors and effects.                   *)

\* C21: in every reachable state, also under interleaved assignMoneyToTag and
\* removeMoneyFromTag calls, the stored balance of each (tag, account) row
\* (0 when there is no row) equals the amounts of the successful assigns
\* minus the amounts of the successful removes for that key.
C21_BalanceIsHistory ==
  \A k \in DOMAIN tagBalances : tagBalances[k].balance = allocated[k]

\* p's call enters removeMoneyFromTag in this step, on an existing account.
entersRemove(p) ==
  /\ entersAllocator(p)
  /\ alloc'[p].op = "remove"
  /\ alloc'[p].accountId \in Accounts

\* There is a row for the key the allocator call of p was made with.
rowExists(rows, a) == rows[<<a.tagId, a.accountId>>].id # 0

\* The amount of the allocator call is more than the row holds.
insufficient(rows, a) == RLess(tagBalanceOf(rows, a.tagId, a.accountId), a.amount)

\* p's allocator call ends in this step with the given error.
throws(p, error) ==
  /\ result'[p].status = "error"
  /\ result'[p].error = error
  /\ result'[p].id = alloc'[p].calledFor
  /\ pc'[p] = "idle"

C22_Step ==
  \A p \in Clients :
    entersRemove(p) =>
      /\ throws(p, "TagBalanceNotFound") <=> ~rowExists(tagBalances, alloc'[p])
      /\ throws(p, "InsufficientTagBalance") <=>
           (rowExists(tagBalances, alloc'[p]) /\ insufficient(tagBalances, alloc'[p]))
      /\ (throws(p, "TagBalanceNotFound") \/ throws(p, "InsufficientTagBalance")) =>
           UNCHANGED <<tagBalances, balance, transactions, transactionEntries>>

\* C22: removeMoneyFromTag with amount > 0 fails with TagBalanceNotFound when
\* there is no row for (tag, account) and with InsufficientTagBalance when the
\* amount is more than the row holds; both leave every TagBalance row and
\* every account as they were.
C22_RemoveErrors == [][C22_Step]_vars

\* One remove has failed for want of a row, another for want of balance.
C22_Witness ==
  \E p, q \in Clients :
    /\ result[p].kind = "removeMoneyFromTag"
    /\ result[p].error = "TagBalanceNotFound"
    /\ result[q].kind = "removeMoneyFromTag"
    /\ result[q].error = "InsufficientTagBalance"

\* p's removeMoneyFromTag returns successfully in this step.
removeSucceeds(p) ==
  /\ pc[p] = "removeWrite"
  /\ pc'[p] = "idle"
  /\ result'[p].status = "ok"

C23_Step ==
  \A p \in Clients :
    removeSucceeds(p) =>
      /\ IF alloc[p].amount = tagBalances[rowKey(p)].balance
           THEN ~rowExists(tagBalances', alloc[p])
           ELSE /\ rowExists(tagBalances', alloc[p])
                /\ tagBalances'[rowKey(p)].balance =
                     RSub(tagBalances[rowKey(p)].balance, alloc[p].amount)
      /\ \A k \in DOMAIN tagBalances \ {rowKey(p)} : tagBalances'[k] = tagBalances[k]

\* C23: a successful removeMoneyFromTag deletes the row when the amount equals
\* the balance the row holds, and otherwise keeps the row with its balance
\* reduced by exactly the amount; no other TagBalance row changes.
C23_DeleteOrDecrement == [][C23_Step]_vars

\* p's call enters assignMoneyToTag in this step.
entersAssign(p) == entersAllocator(p) /\ alloc'[p].op = "assign"

C24_Step ==
  \A p \in Clients :
    entersAssign(p) =>
      /\ throws(p, "AccountNotFound") <=> alloc'[p].accountId \notin Accounts
      /\ throws(p, "TagNotFound") <=>
           (alloc'[p].accountId \in Accounts /\ alloc'[p].tagId \notin Tags)
      /\ (throws(p, "AccountNotFound") \/ throws(p, "TagNotFound")) =>
           UNCHANGED tagBalances

\* C24: assignMoneyToTag fails with AccountNotFound when the account does not
\* exist and with TagNotFound when the account exists and the tag does not;
\* in both cases no TagBalance row is created or changed.
C24_AssignLookups == [][C24_Step]_vars

\* One assign has failed for want of the account, another for want of the tag.
C24_Witness ==
  \E p, q \in Clients :
    /\ result[p].kind = "assignMoneyToTag"
    /\ result[p].error = "AccountNotFound"
    /\ result[q].kind = "assignMoneyToTag"
    /\ result[q].error = "TagNotFound"

\* p's validateTagBalanceConstraints returns its report in this step.
validateReturns(p) == pc[p] = "validateSum" /\ pc'[p] = "idle"

\* The account p's validateTagBalanceConstraints was called for.
validatedAccount(p) == call[p].req.accountId

C25_Step ==
  \A p \in Clients :
    /\ (pc[p] \in {"idle", "validateSum"} /\ pc'[p] \in {"idle", "validateSum"}
        /\ pc'[p] # pc[p]) =>
         UNCHANGED <<ledger, exchangeRates, tagBalances>>
    /\ validateReturns(p) =>
         /\ report'[p].totalTagBalances =
              totalTagBalances(tagBalances, Tags, validatedAccount(p))
         /\ report'[p].accountBalance = balance[validatedAccount(p)]
         /\ report'[p].availableBalance =
              RSub(balance[validatedAccount(p)],
                   totalTagBalances(tagBalances, Tags, validatedAccount(p)))
         /\ report'[p].isValid =
              ~RLess(balance[validatedAccount(p)],
                     totalTagBalances(tagBalances, Tags, validatedAccount(p)))

\* C25: validateTagBalanceConstraints changes no state and returns
\* totalTagBalances = the sum of all TagBalance rows of the account (over
\* every tag), accountBalance = the balance of the account, availableBalance =
\* accountBalance - totalTagBalances and isValid = (totalTagBalances <=
\* accountBalance).
C25_ValidationReport == [][C25_Step]_vars

-----------------------------------------------------------------------------
(* The Exchange Rate Resolver.                                              *)

\* p starts a call of the given kind in this step.
startsCall(p, kind) ==
  /\ pc[p] = "idle"
  /\ calls' = calls + 1
  /\ \/ result'[p].id = calls' /\ result'[p].kind = kind
     \/ call'[p].id = calls' /\ call'[p].req.kind = kind

\* The requests to the Rate Source in a log.
sourceRequests(log) ==
  {i \in 1..Len(log) : log[i].io \in {"primary", "fallback"}}

\* The rates getExchangeRate has returned for the key of p's new call.
returnedFor(p) ==
  {h \in rateHistory.returned :
     /\ h.fromCurrency = resolving'[p].fromCurrency
     /\ h.toCurrency = resolving'[p].toCurrency
     /\ h.date = dateStr(resolving'[p].date)}

\* The step is the upsert of a bulk refresh.
refreshWrites == \E p \in Clients : pc[p] = "upsertRates" /\ pc'[p] = "idle"

C26_Step ==
  /\ \A p \in Clients :
       (startsCall(p, "getExchangeRate") /\ returnedFor(p) # {}) =>
         /\ result'[p].status = "ok"
         /\ \A h \in returnedFor(p) : resolving'[p].rate = h.rate
         /\ sourceRequests(resolving'[p].log) = {}
         /\ pc'[p] = "idle"
         /\ UNCHANGED exchangeRates
  /\ ~refreshWrites => exchangeRates \subseteq exchangeRates'

\* C26: once getExchangeRate has returned r for two different currencies and
\* a calendar day, every later call for the same currencies and day returns r
\* without a request to the Rate Source, as long as no bulk refresh has run
\* in between; getExchangeRate never overwrites a cached rate.
C26_CachedRateSticks == [][C26_Step]_vars

\* A second call for a key has been answered from the row the first stored.
C26_Witness ==
  \E p, q \in Clients :
    /\ result[p].status = "ok" /\ result[p].kind = "getExchangeRate"
    /\ resolving[p].log = <<logged("findUnique", TRUE)>>
    /\ result[q].status = "ok" /\ result[q].kind = "getExchangeRate"
    /\ result[q].id < result[p].id
    /\ Len(resolving[q].log) > 1
    /\ resolving[q].rate = resolving[p].rate
    /\ resolving[q].date = resolving[p].date

\* The cache write of p's getExchangeRate is over in this step.
cacheWriteDone(p) == pc[p] = "createRate" /\ pc'[p] = "idle"

C27_Step ==
  \A p \in Clients :
    cacheWriteDone(p) =>
      /\ result'[p].status = "ok"
      /\ Cardinality(cachedRate(exchangeRates', resolving[p].fromCurrency,
                                resolving[p].toCurrency, resolving[p].date)) = 1

\* C27: when two getExchangeRate calls for the same (from, to, calendar day)
\* miss the cache together and both fetch a rate, both return a rate: the
\* duplicate-key conflict of the second cache write never surfaces as an
\* error, and exactly one ExchangeRate row exists for the key afterwards.
C27_DuplicateWriteSwallowed == [][C27_Step]_vars

\* The log is one of a getExchangeRate call (updateExchangeRates has no target).
ofGetRate(r) == r.toCurrency # Null

\* The source whose answer gave the rate, if any: the one logged last.
answeredBy(r, io) ==
  /\ r.log # <<>>
  /\ \E i \in 1..Len(r.log) : r.log[i] = logged(io, TRUE)
  /\ r.rateData.ok
  /\ r.toCurrency \in DOMAIN r.rateData.rates

bothFailed(r) ==
  /\ \E i \in 1..Len(r.log) : r.log[i] = logged("primary", FALSE)
  /\ \E i \in 1..Len(r.log) : r.log[i] = logged("fallback", FALSE)

C28_Order ==
  \A p \in Clients :
    ofGetRate(resolving[p]) =>
      \A i \in 1..Len(resolving[p].log) :
        /\ resolving[p].log[i].io = "primary" =>
             (i > 1 /\ resolving[p].log[i - 1] = logged("findUnique", FALSE))
        /\ resolving[p].log[i].io = "fallback" =>
             (i > 1 /\ resolving[p].log[i - 1] = logged("primary", FALSE))

\* p's getExchangeRate, having missed the cache, ends in this step.
missEnds(p) ==
  /\ call[p].req.kind = "getExchangeRate"
  /\ pc[p] \in {"fetchPrimary", "fetchFallback", "createRate"}
  /\ pc'[p] = "idle"

returnsAndPersists(p, rate) ==
  /\ result'[p].status = "ok"
  /\ resolving'[p].rate = rate
  /\ exchangeRate(resolving[p].fromCurrency, resolving[p].toCurrency,
                  resolving[p].date, rate) \in exchangeRates'

C28_Step ==
  \A p \in Clients :
    missEnds(p) =>
      /\ answeredBy(resolving'[p], "primary") =>
           returnsAndPersists(p, SourceRates(resolving[p].fromCurrency)[resolving[p].toCurrency])
      /\ answeredBy(resolving'[p], "fallback") =>
           returnsAndPersists(p, FallbackRates(resolving[p].fromCurrency)[resolving[p].toCurrency])
      /\ bothFailed(resolving'[p]) =>
           /\ result'[p].error = "RateUnavailable"
           /\ UNCHANGED exchangeRates

\* C28: on a cache miss getExchangeRate asks the primary source first and the
\* fallback source only after the primary request failed; it returns and
\* persists the rate of the first source that succeeds, and fails with
\* RateUnavailable, persisting nothing, when both sources fail.
C28_PrimaryThenFallback == [](C28_Order) /\ [][C28_Step]_vars

\* The rates the last successful refresh wrote for the key of p's new call.
refreshedFor(p) ==
  {h \in rateHistory.refreshed :
     /\ h.fromCurrency = resolving'[p].fromCurrency
     /\ h.toCurrency = resolving'[p].toCurrency
     /\ h.date = dateStr(resolving'[p].date)}

C29_Step ==
  \A p \in Clients :
    (startsCall(p, "getExchangeRate") /\ refreshedFor(p) # {}) =>
      /\ result'[p].status = "ok"
      /\ \A h \in refreshedFor(p) : resolving'[p].rate = h.rate

\* C29: after updateExchangeRates(base) has succeeded with a rate table that
\* maps target to r, getExchangeRate(base, target, today) returns r, also when
\* another rate was cached for (base, target, today) before: the refresh
\* writes under the key that getExchangeRate reads.
C29_RefreshIsRead == [][C29_Step]_vars

\* Two currency codes that name one currency, in whatever case.
sameCurrencyCode(a, b) ==
  \/ a = b
  \/ {a, b} = {"usd", "USD"}
  \/ {a, b} = {"lkr", "LKR"}

C30_Step ==
  \A p \in Clients :
    (/\ startsCall(p, "getExchangeRate")
     /\ sameCurrencyCode(resolving'[p].request.fromCurrency,
                         resolving'[p].request.toCurrency)) =>
      /\ result'[p].status = "ok"
      /\ pc'[p] = "idle"
      /\ resolving'[p].rate = One
      /\ resolving'[p].log = <<>>
      /\ UNCHANGED exchangeRates

\* C30: getExchangeRate returns 1 whenever from and to are one and the same
\* currency, without reading the rate cache, without a request to the Rate
\* Source and without writing an ExchangeRate row.
C30_SameCurrencyIsOne == [][C30_Step]_vars

\* A call for one currency, written in two cases, has returned 1.
C30_Witness ==
  \E p \in Clients :
    /\ result[p].status = "ok" /\ result[p].kind = "getExchangeRate"
    /\ resolving[p].request.kind = "getExchangeRate"
    /\ resolving[p].request.fromCurrency = "usd"
    /\ resolving[p].request.toCurrency = "USD"
    /\ resolving[p].rate = One

\* p is inside a call of updateExchangeRates, before its upserts.
refreshing(p) ==
  /\ call[p] # NoCall
  /\ call[p].req.kind = "updateExchangeRates"
  /\ pc[p] \in {"fetchPrimary", "fetchFallback"}

\* The rate-table fetch of p's refresh fails on the second source in this step.
refreshFetchFails(p) ==
  /\ refreshing(p)
  /\ resolving'[p].log # resolving[p].log
  /\ bothFailed(resolving'[p])

C31_Step ==
  \A p \in Clients :
    /\ refreshFetchFails(p) =>
         /\ result'[p] = Failed("updateExchangeRates", call[p].id, "RateUnavailable")
         /\ pc'[p] = "idle"
         /\ UNCHANGED exchangeRates
    /\ (refreshing(p) /\ resolving'[p] # resolving[p]) => UNCHANGED exchangeRates

\* C31: when the rate-table fetch fails on both sources, updateExchangeRates
\* fails with RateUnavailable, and no step of the call up to that failure
\* creates or modifies an ExchangeRate row.
C31_RefreshFetchFailure == [][C31_Step]_vars

\* A refresh has failed after both sources failed it.
C31_Witness ==
  \E p \in Clients :
    /\ result[p].status = "error" /\ result[p].kind = "updateExchangeRates"
    /\ result[p].error = "RateUnavailable"
    /\ resolving[p].log = <<logged("primary", FALSE), logged("fallback", FALSE)>>

\* p's getSupportedCurrencies ends in this step.
listEnds(p) ==
  /\ call[p] # NoCall
  /\ call[p].req.kind = "getSupportedCurrencies"
  /\ pc'[p] = "idle"

\* The fetch of the list succeeded: an OK response with a readable body.
listFetched(log) == log = <<logged("fetch", TRUE), logged("json", TRUE)>>

C32_Step ==
  \A p \in Clients :
    listEnds(p) =>
      /\ result'[p] = Ok("getSupportedCurrencies", call[p].id)
      /\ IF listFetched(resolving'[p].log)
           THEN /\ Len(resolving'[p].currencies) = Len(resolving[p].rateData.answer.keys)
                /\ \A i \in 1..Len(resolving'[p].currencies) :
                     sameCurrencyCode(resolving'[p].currencies[i],
                                      resolving[p].rateData.answer.keys[i])
                /\ \A i \in 1..Len(resolving'[p].currencies) :
                     resolving'[p].currencies[i] \notin {"usd", "lkr"}
           ELSE resolving'[p].currencies = FallbackCurrencies

\* C32: getSupportedCurrencies never fails: it returns the source's currency
\* list, in upper case, when the fetch succeeds, and the static fallback list
\* when the fetch fails in any way (network error, non-OK response,
\* unreadable body).
C32_ListNeverFails == [][C32_Step]_vars

\* The list has been returned from the source, from the static list after a
\* failed fetch, and from the static list after an unreadable body.
C32_Witness ==
  \E p, q \in Clients :
    /\ result[p] = Ok("getSupportedCurrencies", result[p].id)
    /\ resolving[p].currencies = <<"USD", "LKR">>
    /\ result[q] = Ok("getSupportedCurrencies", result[q].id)
    /\ resolving[q].currencies = FallbackCurrencies
    /\ resolving[q].log \in {<<logged("fetch", FALSE)>>,
                              <<logged("fetch", TRUE), logged("json", FALSE)>>}

-----------------------------------------------------------------------------
(* The frame of the ledger.                                                 *)

\* The step is the commit of the $transaction of a createTransaction.
commitStep ==
  \E p \in Clients :
    /\ pc[p] = "updated"
    /\ pc'[p] \in {"idle", "committed"}
    /\ transactions' = transactions \cup txn[p].headers
    /\ transactionEntries' = transactionEntries \cup txn[p].entries

C33_Step ==
  /\ ~commitStep => UNCHANGED ledger
  /\ transactions \subseteq transactions'
  /\ transactionEntries \subseteq transactionEntries'

\* C33: Account.balance changes only inside createTransaction: the allocator,
\* the validation of the tag balances and the rate resolver leave every
\* Account balance, Transaction and TransactionEntry unchanged, and no
\* operation modifies or deletes a committed Transaction or TransactionEntry.
C33_LedgerFrame == [][C33_Step]_vars

-----------------------------------------------------------------------------
(* The ledger and its verification helper.                                  *)

\* C34: in every reachable state each account's balance equals its balance
\* at creation plus the sum of debitAmount minus the sum of creditAmount over
\* the committed entries on the account, and that is the value
\* calculateAccountBalance returns for an account created with balance 0.
C34_BalanceIsEntrySum ==
  \A a \in Accounts :
    /\ balance[a] = RAdd(InitialBalance[a], postedChange(entriesOn(a)))
    /\ InitialBalance[a] = Zero =>
         calculateAccountBalance(transactionEntries, a) = toNumber(balance[a])

\* The same with the helper left out: the stored balance is the entry sum.
C34_StoredBalanceIsEntrySum ==
  \A a \in Accounts : balance[a] = RAdd(InitialBalance[a], postedChange(entriesOn(a)))

-----------------------------------------------------------------------------
(* The two executors compared.                                              *)

assetOrExpenseOnly ==
  \A e \in transactionEntries : AccountType[e.accountId] \in {"ASSET", "EXPENSE"}

sameBalances == \A a \in Accounts : balanceTA[a] = toNumber(balance[a])

\* C35: after every sequence of balanced postings of one currency on ASSET
\* and EXPENSE accounts only, the type-aware executor and the plain-signed
\* executor have left identical balances on every account.
C35_ExecutorsAgreeOnAssetsAndExpenses == assetOrExpenseOnly => sameBalances

\* Two postings on assets alone after which the stores differ.
C35_Witness ==
  /\ Cardinality(transactions) = 2
  /\ assetOrExpenseOnly
  /\ ~sameBalances

\* Amounts whose sums and differences are exact in numbers.
exactAmountsOnly ==
  \A e \in transactionEntries : {e.debitAmount, e.creditAmount} \subseteq {Zero, One, Half}

\* The part of C35 that holds: when no sum is rounded, the two executors
\* agree on ASSET and EXPENSE accounts.
C35_ExecutorsAgreeOnExactAmounts ==
  (assetOrExpenseOnly /\ exactAmountsOnly) => sameBalances

-----------------------------------------------------------------------------
(* Tagged transfers across currencies.                                      *)

\* The DEBIT entry of the destination account in the composed posting.
destinationDebit(p) == call[p].input.entries[1].amount

destinationKey(p) == <<call[p].req.tagId, call[p].req.toAccountId>>

C36_Step ==
  \A p \in Clients :
    call[p].req.kind = "createTaggedTransferTransaction" =>
      /\ (pc[p] = "updated" /\ pc'[p] = "committed") =>
           balance'[call[p].req.toAccountId] =
             RAdd(balance[call[p].req.toAccountId], destinationDebit(p))
      /\ (pc'[p] = "idle" /\ result'[p].status = "ok") =>
           tagBalances'[destinationKey(p)].balance =
             RAdd(tagBalances[destinationKey(p)].balance, destinationDebit(p))

\* C36: a tagged transfer that finishes successfully has raised
\* TagBalance(tag, destination) by exactly the amount by which its posting
\* raised the balance of the destination account, within one currency and
\* across two, where the destination is debited with the converted amount.
C36_TagFollowsDestination == [][C36_Step]_vars

sameCurrencyTransfer(p) ==
  AccountCurrency[call[p].req.fromAccountId] = AccountCurrency[call[p].req.toAccountId]

C36_SameCurrencyStep ==
  (\A p \in Clients :
     call[p].req.kind = "createTaggedTransferTransaction" => sameCurrencyTransfer(p))
    => C36_Step

\* The part of C36 that holds: transfers within one currency.
C36_TagFollowsDestinationInOneCurrency == [][C36_SameCurrencyStep]_vars

-----------------------------------------------------------------------------
(* Composed transfers before the validator.                                 *)

\* The request of the call p has just made: a transfer between two existing
\* accounts of different currencies with no currency overrides.
crossCurrencyTransfer(c) ==
  /\ c.req.kind = "createTransferTransaction"
  /\ c.req.fromAccountId \in Accounts /\ c.req.toAccountId \in Accounts
  /\ AccountCurrency[c.req.fromAccountId] # AccountCurrency[c.req.toAccountId]
  /\ c.req.fromCurrency = Null /\ c.req.toCurrency = Null

\* The rows as some answer of the rate source leaves them after composing.
rowsAfterComposing(req, rows) ==
  {composeTransfer(req, rows, api).rows : api \in ApiOutcomes}

C37_Step ==
  \A p \in Clients :
    (/\ calls' = calls + 1
     /\ call'[p].id = calls'
     /\ crossCurrencyTransfer(call'[p])
     /\ call'[p].input # NoInput) =>
      /\ local'[p].validated /\ local'[p].verdict
      /\ ~local'[p].caught
      /\ exchangeRates' \in rowsAfterComposing(call'[p].req, exchangeRates)

\* C37: every entry set that createTransferTransaction composes for two
\* existing accounts of different currencies, with no currency overrides and
\* a positive custom or resolved rate, is accepted by validateDoubleEntry,
\* and the validator resolves no rate of its own while it valuates them.
C37_ComposedTransferAccepted == [][C37_Step]_vars

\* A transfer at a custom rate that is not the rate of the source has been
\* composed and accepted, and no rate was stored for it.
C37_Witness ==
  \E p \in Clients :
    /\ crossCurrencyTransfer(call[p])
    /\ call[p].req.customExchangeRate = Third
    /\ call[p].req.fromAccountId = "Dollar"
    /\ local[p].verdict
    /\ exchangeRates = {}

-----------------------------------------------------------------------------
(* The life of a TagBalance row.                                            *)

\* p's assign creates the row of k in this step.
createsRow(p, k) ==
  /\ pc[p] = "assignWrite" /\ alloc[p].op = "assign" /\ rowKey(p) = k
  /\ pc'[p] = "idle" /\ result'[p].status = "ok"

\* p's remove writes in this step and its amount is what the row of k holds.
removesToZero(p, k) ==
  /\ pc[p] = "removeWrite" /\ alloc[p].op = "remove" /\ rowKey(p) = k
  /\ alloc[p].amount = tagBalances[k].balance
  /\ pc'[p] = "idle" /\ result'[p].status = "ok"

\* p's assign runs its create on a key that has a row by now.
createsOnExisting(p) ==
  /\ pc[p] = "assignWrite" /\ pc'[p] # pc[p]
  /\ alloc[p].existing = 0 /\ tagBalances[rowKey(p)].id # 0

C38_Step ==
  /\ \A k \in DOMAIN tagBalances :
       /\ tagBalances'[k].id # 0 => RLess(Zero, tagBalances'[k].balance)
       /\ (tagBalances[k].id = 0 /\ tagBalances'[k].id # 0) =>
            \E p \in Clients : createsRow(p, k)
       /\ (tagBalances[k].id # 0 /\ tagBalances'[k].id = 0) =>
            \E p \in Clients : removesToZero(p, k)
  /\ \A p \in Clients :
       createsOnExisting(p) =>
         /\ UNCHANGED tagBalances
         /\ result'[p].error = "UniqueConstraint"

\* C38: under assigns and removes of positive amounts every stored TagBalance
\* row has a balance greater than 0 and a key has at most one row (a second
\* create on the key is refused): a row appears only when an assign creates
\* it and disappears only when a remove takes out exactly what it holds.
C38_RowLife == [][C38_Step]_vars
====
